---- MODULE Spec2Model ----
(***************************************************************************)
(* A model of the p8est reference geometry (p8est_geometry.c) and of the   *)
(* p8est connectivity interface (p8est_connectivity.h).                    *)
(*                                                                         *)
(* Doubles are modelled by exact rationals <<n, d>> in lowest terms with   *)
(* d > 0.  The libm functions are evaluated at the sample points of the    *)
(* reference domain; where libm returns an irrational value the model      *)
(* returns a nearby rational, as libm returns a nearby double.             *)
(***************************************************************************)
EXTENDS Integers, Sequences, FiniteSets, TLC

VARIABLES geom, call, conn, query

vars == <<geom, call, conn, query>>

------------------------------------------------------------------------------
(* double arithmetic, exact *)

Abs(n) == IF n < 0 THEN -n ELSE n

RECURSIVE Gcd(_, _)
Gcd(a, b) == IF b = 0 THEN a ELSE Gcd(b, a % b)

Rat(n, d) ==
  LET s == IF d < 0 THEN -1 ELSE 1
      g == Gcd(Abs(n), Abs(d))
  IN  <<(s * n) \div g, (s * d) \div g>>

Zero == <<0, 1>>
One == <<1, 1>>
Two == <<2, 1>>
Half == <<1, 2>>

Neg(a) == <<-a[1], a[2]>>

Add(a, b) ==
  LET g == Gcd(a[2], b[2])
  IN  Rat(a[1] * (b[2] \div g) + b[1] * (a[2] \div g), (a[2] \div g) * b[2])

Sub(a, b) == Add(a, Neg(b))

Mul(a, b) ==
  LET g1 == Gcd(Abs(a[1]), b[2])
      g2 == Gcd(Abs(b[1]), a[2])
  IN  <<(a[1] \div g1) * (b[1] \div g2), (a[2] \div g2) * (b[2] \div g1)>>

Inv(a) == IF a[1] < 0 THEN <<-a[2], -a[1]>> ELSE <<a[2], a[1]>>

Div(a, b) == Mul(a, Inv(b))

Lt(a, b) == a[1] * b[2] < b[1] * a[2]

Mul3(a, b, c) == Mul(Mul(a, b), c)

(* double[3] and double[3][3], indexed from 0 as in C *)
Vec(a, b, c) == [i \in 0..2 |-> <<a, b, c>>[i + 1]]

Mat(r0, r1, r2) == [i \in 0..2 |-> <<r0, r1, r2>>[i + 1]]

Identity3 == Mat(Vec(One, Zero, Zero), Vec(Zero, One, Zero), Vec(Zero, Zero, One))

------------------------------------------------------------------------------
(* libm and the constants of math.h and sc.h *)

M_PI_4 == <<11, 14>>

SC_1000_EPS == <<1, 1000000>>

(* the integer square root, by search *)
isqrt(v) == CHOOSE k \in 0..v : k * k <= v /\ (k + 1) * (k + 1) > v

(* sqrt, exact on squares of sixths and rounded down to a sixth of the
   denominator otherwise *)
sqrt(r) == Rat(isqrt(r[1] * r[2] * 36), r[2] * 6)

(* tan and cos at the multiples of pi/4 that the sample points produce, and
   tan at pi/8, where it is near 2/5 *)
tan(u) ==
  CASE u = Zero -> Zero
    [] u = M_PI_4 -> One
    [] u = Neg(M_PI_4) -> Neg(One)
    [] u = Mul(Half, M_PI_4) -> <<2, 5>>

cos(u) ==
  CASE u = Zero -> One
    [] u = M_PI_4 -> sqrt(Half)
    [] u = Neg(M_PI_4) -> sqrt(Half)

(* pow at the exponents the code uses: abc[2] in {1, 3/2, 2} and 3. *)
pow(b, e) ==
  CASE e = One -> b
    [] e = Two -> Mul(b, b)
    [] e = <<3, 1>> -> Mul3(b, b, b)
    [] e = <<3, 2>> -> Mul(b, sqrt(b))

(* log, by the first term of log r = 2 atanh ((r - 1) / (r + 1)) *)
log(r) == Mul(Two, Div(Sub(r, One), Add(r, One)))

------------------------------------------------------------------------------
(* results of a call: a return, or an abort of the debug build *)

Aborted(why) == [status |-> "abort", why |-> why]

(* P4EST_ASSERT (v < hi + SC_1000_EPS && v > lo - SC_1000_EPS) *)
InRange(v, lo, hi) ==
  Lt(v, Add(hi, SC_1000_EPS)) /\ Lt(Sub(lo, SC_1000_EPS), v)

(* the determinant, expanded along the first row as the code writes it *)
det3(J) ==
  Add(Add(Mul(J[0][0], Sub(Mul(J[1][1], J[2][2]), Mul(J[1][2], J[2][1]))),
          Mul(J[0][1], Sub(Mul(J[1][2], J[2][0]), Mul(J[1][0], J[2][2])))),
      Mul(J[0][2], Sub(Mul(J[1][0], J[2][1]), Mul(J[1][1], J[2][0]))))

------------------------------------------------------------------------------
(* identity geometry *)

identity_X(g, which_tree, abc) == [status |-> "ok", xyz |-> abc]

identity_D(g, which_tree, abc) == [status |-> "ok", ret |-> One]

identity_J(g, which_tree, abc) ==
  [status |-> "ok", J |-> Identity3, ret |-> One]

(* new_identity with Jit left to the default p8est_geometry_Jit *)
new_identity_default_Jit ==
  [type |-> "identity", X |-> "identity_X", D |-> "identity_D",
   J |-> "identity_J", Jit |-> "Jit"]

new_identity ==
  [type |-> "identity", X |-> "identity_X", D |-> "identity_D",
   J |-> "identity_J", Jit |-> "identity_J"]

------------------------------------------------------------------------------
(* shell geometry *)

(* the assertions of the shell without the one on which_tree *)
shell_asserts_without_tree(g, which_tree, abc) ==
  /\ g.type = "shell"
  /\ InRange(abc[0], Neg(One), One)
  /\ InRange(abc[1], Neg(One), One)
  /\ InRange(abc[2], One, Two)

shell_asserts(g, which_tree, abc) ==
  /\ g.type = "shell"
  /\ 0 <= which_tree /\ which_tree < 24
  /\ InRange(abc[0], Neg(One), One)
  /\ InRange(abc[1], Neg(One), One)
  /\ InRange(abc[2], One, Two)

(* shell_X's switch with the bodies of case 1 (bottom) and case 3 (top)
   exchanged *)
shell_X_patch_top_bottom(patch, q, x, y) ==
  CASE patch = 3 -> Vec(Mul(Neg(q), y), Mul(Neg(q), x), Neg(q))
    [] patch = 2 -> Vec(Neg(q), Mul(Neg(q), x), Mul(q, y))
    [] patch = 1 -> Vec(Mul(q, y), Mul(Neg(q), x), q)
    [] patch = 0 -> Vec(q, Mul(Neg(q), x), Mul(Neg(q), y))
    [] patch = 4 -> Vec(Mul(Neg(q), x), q, Mul(q, y))
    [] patch = 5 -> Vec(Mul(q, x), Neg(q), Mul(q, y))

(* the switch of shell_X: xyz by patch id *)
shell_X_patch(patch, q, x, y) ==
  CASE patch = 3 -> Vec(Mul(q, y), Mul(Neg(q), x), q)
    [] patch = 2 -> Vec(Neg(q), Mul(Neg(q), x), Mul(q, y))
    [] patch = 1 -> Vec(Mul(Neg(q), y), Mul(Neg(q), x), Neg(q))
    [] patch = 0 -> Vec(q, Mul(Neg(q), x), Mul(Neg(q), y))
    [] patch = 4 -> Vec(Mul(Neg(q), x), q, Mul(q, y))
    [] patch = 5 -> Vec(Mul(q, x), Neg(q), Mul(q, y))

(* shell_X switching on which_tree / 3 *)
shell_X_three_trees_per_patch(g, which_tree, abc) ==
  IF ~shell_asserts(g, which_tree, abc) THEN Aborted("range")
  ELSE
    LET x == tan(Mul(abc[0], M_PI_4))
        y == tan(Mul(abc[1], M_PI_4))
        R == Mul(g.R1sqrbyR2, pow(g.R2byR1, abc[2]))
        q == Div(R, sqrt(Add(Add(Mul(x, x), Mul(y, y)), One)))
    IN  IF which_tree \div 3 \in 0..5
          THEN [status |-> "ok", xyz |-> shell_X_patch(which_tree \div 3, q, x, y)]
          ELSE Aborted("not_reached")

shell_X(g, which_tree, abc) ==
  IF ~shell_asserts(g, which_tree, abc) THEN Aborted("range")
  ELSE
    LET x == tan(Mul(abc[0], M_PI_4))
        y == tan(Mul(abc[1], M_PI_4))
        R == Mul(g.R1sqrbyR2, pow(g.R2byR1, abc[2]))
        q == Div(R, sqrt(Add(Add(Mul(x, x), Mul(y, y)), One)))
    IN  IF which_tree \div 4 \in 0..5
          THEN [status |-> "ok", xyz |-> shell_X_patch(which_tree \div 4, q, x, y)]
          ELSE Aborted("not_reached")

(* shell_D's matrix with x and y of its last column lost *)
shell_D_matrix_without_xy(x, y, t) ==
  Mat(Vec(Sub(One, Mul(Mul(x, x), t)), Mul(Mul(Neg(x), y), t), Zero),
      Vec(Mul(Mul(Neg(x), y), t), Sub(One, Mul(Mul(y, y), t)), Zero),
      Vec(Mul(Neg(x), t), Mul(Neg(y), t), One))

(* the Jacobian of shell_D, aligned to the octree modulo scaling *)
shell_D_matrix(x, y, t) ==
  Mat(Vec(Sub(One, Mul(Mul(x, x), t)),
          Mul(Mul(Neg(x), y), t),
          x),
      Vec(Mul(Mul(Neg(x), y), t),
          Sub(One, Mul(Mul(y, y), t)),
          y),
      Vec(Mul(Neg(x), t),
          Mul(Neg(y), t),
          One))

shell_D(g, which_tree, abc) ==
  IF ~shell_asserts(g, which_tree, abc) THEN Aborted("range")
  ELSE
    LET cx == cos(Mul(abc[0], M_PI_4))
        derx == Div(M_PI_4, Mul(cx, cx))
        x == tan(Mul(abc[0], M_PI_4))
        cy == cos(Mul(abc[1], M_PI_4))
        dery == Div(M_PI_4, Mul(cy, cy))
        y == tan(Mul(abc[1], M_PI_4))
        R == Mul(g.R1sqrbyR2, pow(g.R2byR1, abc[2]))
        t == Div(One, Add(Add(Mul(x, x), Mul(y, y)), One))
        q == Mul(R, sqrt(t))
        J == shell_D_matrix(x, y, t)
        detJ == Mul(Mul(Mul(Mul(Mul(Mul(det3(J), q), q), q), derx), dery), g.Rlog)
    IN  IF ~Lt(Zero, detJ) THEN Aborted("detJ")
        ELSE [status |-> "ok", ret |-> detJ]

shell_J_patch_always_top(patch, q, x, y, t, derx, dery, Rlog) ==
  Mat(Vec(Mul(Mul(Mul(Mul(Neg(q), x), y), t), derx),
          Mul(Mul(q, Sub(One, Mul(Mul(y, y), t))), dery),
          Mul(Mul(q, y), Rlog)),
      Vec(Mul(Mul(Neg(q), Sub(One, Mul(Mul(x, x), t))), derx),
          Mul(Mul(Mul(Mul(q, x), y), t), dery),
          Mul(Mul(Neg(q), x), Rlog)),
      Vec(Mul(Mul(Mul(Neg(q), x), t), derx),
          Mul(Mul(Mul(Neg(q), y), t), dery),
          Mul(q, Rlog)))

(* the switch of shell_J: the Jacobian by patch id *)
shell_J_patch(patch, q, x, y, t, derx, dery, Rlog) ==
  CASE patch = 3 ->
      Mat(Vec(Mul(Mul(Mul(Mul(Neg(q), x), y), t), derx),
              Mul(Mul(q, Sub(One, Mul(Mul(y, y), t))), dery),
              Mul(Mul(q, y), Rlog)),
          Vec(Mul(Mul(Neg(q), Sub(One, Mul(Mul(x, x), t))), derx),
              Mul(Mul(Mul(Mul(q, x), y), t), dery),
              Mul(Mul(Neg(q), x), Rlog)),
          Vec(Mul(Mul(Mul(Neg(q), x), t), derx),
              Mul(Mul(Mul(Neg(q), y), t), dery),
              Mul(q, Rlog)))
    [] patch = 2 ->
      Mat(Vec(Mul(Mul(Mul(q, x), t), derx),
              Mul(Mul(Mul(q, y), t), dery),
              Mul(Neg(q), Rlog)),
          Vec(Mul(Mul(Neg(q), Sub(One, Mul(Mul(x, x), t))), derx),
              Mul(Mul(Mul(Mul(q, x), y), t), dery),
              Mul(Mul(Neg(q), x), Rlog)),
          Vec(Mul(Mul(Mul(Mul(Neg(q), x), y), t), derx),
              Mul(Mul(q, Sub(One, Mul(Mul(y, y), t))), dery),
              Mul(Mul(q, y), Rlog)))
    [] patch = 1 ->
      Mat(Vec(Mul(Mul(Mul(Mul(q, x), y), t), derx),
              Mul(Mul(Neg(q), Sub(One, Mul(Mul(y, y), t))), dery),
              Mul(Mul(Neg(q), y), Rlog)),
          Vec(Mul(Mul(Neg(q), Sub(One, Mul(Mul(x, x), t))), derx),
              Mul(Mul(Mul(Mul(q, x), y), t), dery),
              Mul(Mul(Neg(q), x), Rlog)),
          Vec(Mul(Mul(Mul(q, x), t), derx),
              Mul(Mul(Mul(q, y), t), dery),
              Mul(Neg(q), Rlog)))
    [] patch = 0 ->
      Mat(Vec(Mul(Mul(Mul(Neg(q), x), t), derx),
              Mul(Mul(Mul(Neg(q), y), t), dery),
              Mul(q, Rlog)),
          Vec(Mul(Mul(Neg(q), Sub(One, Mul(Mul(x, x), t))), derx),
              Mul(Mul(Mul(Mul(q, x), y), t), dery),
              Mul(Mul(Neg(q), x), Rlog)),
          Vec(Mul(Mul(Mul(Mul(q, x), y), t), derx),
              Mul(Mul(Neg(q), Sub(One, Mul(Mul(y, y), t))), dery),
              Mul(Mul(Neg(q), y), Rlog)))
    [] patch = 4 ->
      Mat(Vec(Mul(Mul(Neg(q), Sub(One, Mul(Mul(x, x), t))), derx),
              Mul(Mul(Mul(Mul(q, x), y), t), dery),
              Mul(Mul(Neg(q), x), Rlog)),
          Vec(Mul(Mul(Mul(Neg(q), x), t), derx),
              Mul(Mul(Mul(Neg(q), y), t), dery),
              Mul(q, Rlog)),
          Vec(Mul(Mul(Mul(Mul(Neg(q), x), y), t), derx),
              Mul(Mul(q, Sub(One, Mul(Mul(y, y), t))), dery),
              Mul(Mul(q, y), Rlog)))
    [] patch = 5 ->
      Mat(Vec(Mul(Mul(q, Sub(One, Mul(Mul(x, x), t))), derx),
              Mul(Mul(Mul(Mul(Neg(q), x), y), t), dery),
              Mul(Mul(q, x), Rlog)),
          Vec(Mul(Mul(Mul(q, x), t), derx),
              Mul(Mul(Mul(q, y), t), dery),
              Mul(Neg(q), Rlog)),
          Vec(Mul(Mul(Mul(Mul(Neg(q), x), y), t), derx),
              Mul(Mul(q, Sub(One, Mul(Mul(y, y), t))), dery),
              Mul(Mul(q, y), Rlog)))

shell_J(g, which_tree, abc) ==
  IF ~shell_asserts(g, which_tree, abc) THEN Aborted("range")
  ELSE
    LET Rlog == g.Rlog
        cx == cos(Mul(abc[0], M_PI_4))
        derx == Div(M_PI_4, Mul(cx, cx))
        x == tan(Mul(abc[0], M_PI_4))
        cy == cos(Mul(abc[1], M_PI_4))
        dery == Div(M_PI_4, Mul(cy, cy))
        y == tan(Mul(abc[1], M_PI_4))
        R == Mul(g.R1sqrbyR2, pow(g.R2byR1, abc[2]))
        t == Div(One, Add(Add(Mul(x, x), Mul(y, y)), One))
        q == Mul(R, sqrt(t))
    IN  IF which_tree \div 4 \notin 0..5 THEN Aborted("not_reached")
        ELSE
          LET J == shell_J_patch(which_tree \div 4, q, x, y, t, derx, dery, Rlog)
              detJ == det3(J)
          IN  IF ~Lt(Zero, detJ) THEN Aborted("detJ")
              ELSE [status |-> "ok", J |-> J, ret |-> detJ]

new_shell(R2, R1) ==
  [type |-> "shell", R2 |-> R2, R1 |-> R1,
   R2byR1 |-> Div(R2, R1),
   R1sqrbyR2 |-> Div(Mul(R1, R1), R2),
   Rlog |-> log(Div(R2, R1)),
   X |-> "shell_X", D |-> "shell_D", J |-> "shell_J", Jit |-> "Jit"]


------------------------------------------------------------------------------
(* sphere geometry *)

Tab6(r0, r1, r2, r3, r4, r5) == [i \in 0..5 |-> <<r0, r1, r2, r3, r4, r5>>[i + 1]]

Int3(a, b, c) == [i \in 0..2 |-> <<a, b, c>>[i + 1]]

(* mapJ with the rows of the front patch written as those of the bottom *)
mapJ_front_as_bottom ==
  Tab6(Int3(1, 0, 2),
       Int3(0, 1, 2),
       Int3(0, 2, 1),
       Int3(1, 2, 0),
       Int3(1, 0, 2),
       Int3(1, 2, 0))

mapJ ==
  Tab6(Int3(0, 2, 1),
       Int3(0, 1, 2),
       Int3(0, 2, 1),
       Int3(1, 2, 0),
       Int3(1, 0, 2),
       Int3(1, 2, 0))

(* mapM with the last sign of its first row lost *)
mapM_first_row_positive ==
  Tab6(Vec(One, One, One),
       Vec(One, One, One),
       Vec(One, Neg(One), One),
       Vec(Neg(One), Neg(One), One),
       Vec(Neg(One), Neg(One), Neg(One)),
       Vec(Neg(One), One, Neg(One)))

(* mapM with the left patch mirrored in its last axis *)
mapM_left_mirrored ==
  Tab6(Vec(One, One, Neg(One)),
       Vec(One, One, One),
       Vec(One, Neg(One), One),
       Vec(Neg(One), Neg(One), One),
       Vec(Neg(One), Neg(One), Neg(One)),
       Vec(Neg(One), One, One))

mapM ==
  Tab6(Vec(One, One, Neg(One)),
       Vec(One, One, One),
       Vec(One, Neg(One), One),
       Vec(Neg(One), Neg(One), One),
       Vec(Neg(One), Neg(One), Neg(One)),
       Vec(Neg(One), One, Neg(One)))

sphere_asserts(g, which_tree, abc) ==
  /\ g.type = "sphere"
  /\ 0 <= which_tree /\ which_tree < 13
  /\ InRange(abc[0], Neg(One), One)
  /\ InRange(abc[1], Neg(One), One)
  /\ IF which_tree < 12
       THEN InRange(abc[2], One, Two)
       ELSE InRange(abc[2], Neg(One), One)

(* the switch of sphere_X: xyz by direction *)
sphere_X_patch(patch, q, x, y) ==
  CASE patch = 0 -> Vec(Mul(q, x), Neg(q), Mul(q, y))
    [] patch = 1 -> Vec(Mul(q, x), Mul(q, y), q)
    [] patch = 2 -> Vec(Mul(q, x), q, Mul(Neg(q), y))
    [] patch = 3 -> Vec(q, Mul(Neg(q), x), Mul(Neg(q), y))
    [] patch = 4 -> Vec(Mul(Neg(q), y), Mul(Neg(q), x), Neg(q))
    [] patch = 5 -> Vec(Neg(q), Mul(Neg(q), x), Mul(q, y))

(* sphere_X with x and y of the inner shell not blended *)
sphere_X_inner_unblended(g, which_tree, abc) ==
  IF ~sphere_asserts(g, which_tree, abc) THEN Aborted("range")
  ELSE IF which_tree < 6 THEN
    LET x == tan(Mul(abc[0], M_PI_4))
        y == tan(Mul(abc[1], M_PI_4))
        R == Mul(g.R1sqrbyR2, pow(g.R2byR1, abc[2]))
        q == Div(R, sqrt(Add(Add(Mul(x, x), Mul(y, y)), One)))
    IN  IF which_tree % 6 \in 0..5
          THEN [status |-> "ok", xyz |-> sphere_X_patch(which_tree % 6, q, x, y)]
          ELSE Aborted("not_reached")
  ELSE IF which_tree < 12 THEN
    LET p == Sub(Two, abc[2])
        tanx == tan(Mul(abc[0], M_PI_4))
        tany == tan(Mul(abc[1], M_PI_4))
        x == tanx
        y == tany
        R == Mul(g.R0sqrbyR1, pow(g.R1byR0, abc[2]))
        q == Div(R, sqrt(Add(Add(One, Mul(Sub(One, p),
                                          Add(Mul(tanx, tanx), Mul(tany, tany)))),
                             Mul(Two, p))))
    IN  IF which_tree % 6 \in 0..5
          THEN [status |-> "ok", xyz |-> sphere_X_patch(which_tree % 6, q, x, y)]
          ELSE Aborted("not_reached")
  ELSE
    [status |-> "ok",
     xyz |-> Vec(Mul(abc[0], g.Clength), Mul(abc[1], g.Clength),
                 Mul(abc[2], g.Clength))]

sphere_X(g, which_tree, abc) ==
  IF ~sphere_asserts(g, which_tree, abc) THEN Aborted("range")
  ELSE IF which_tree < 6 THEN
    LET x == tan(Mul(abc[0], M_PI_4))
        y == tan(Mul(abc[1], M_PI_4))
        R == Mul(g.R1sqrbyR2, pow(g.R2byR1, abc[2]))
        q == Div(R, sqrt(Add(Add(Mul(x, x), Mul(y, y)), One)))
    IN  IF which_tree % 6 \in 0..5
          THEN [status |-> "ok", xyz |-> sphere_X_patch(which_tree % 6, q, x, y)]
          ELSE Aborted("not_reached")
  ELSE IF which_tree < 12 THEN
    LET p == Sub(Two, abc[2])
        tanx == tan(Mul(abc[0], M_PI_4))
        tany == tan(Mul(abc[1], M_PI_4))
        x == Add(Mul(p, abc[0]), Mul(Sub(One, p), tanx))
        y == Add(Mul(p, abc[1]), Mul(Sub(One, p), tany))
        R == Mul(g.R0sqrbyR1, pow(g.R1byR0, abc[2]))
        q == Div(R, sqrt(Add(Add(One, Mul(Sub(One, p),
                                          Add(Mul(tanx, tanx), Mul(tany, tany)))),
                             Mul(Two, p))))
    IN  IF which_tree % 6 \in 0..5
          THEN [status |-> "ok", xyz |-> sphere_X_patch(which_tree % 6, q, x, y)]
          ELSE Aborted("not_reached")
  ELSE
    [status |-> "ok",
     xyz |-> Vec(Mul(abc[0], g.Clength), Mul(abc[1], g.Clength),
                 Mul(abc[2], g.Clength))]

(* sphere_D's outer matrix with x and y of its last column lost *)
sphere_D_outer_without_xy(x, y, t) ==
  Mat(Vec(Sub(One, Mul(Mul(x, x), t)), Mul(Mul(Neg(x), y), t), Zero),
      Vec(Mul(Mul(Neg(x), y), t), Sub(One, Mul(Mul(y, y), t)), Zero),
      Vec(Mul(Neg(x), t), Mul(Neg(y), t), One))

(* the matrices whose determinant sphere_D takes *)
sphere_D_outer(x, y, t) ==
  Mat(Vec(Sub(One, Mul(Mul(x, x), t)),
          Mul(Mul(Neg(x), y), t),
          x),
      Vec(Mul(Mul(Neg(x), y), t),
          Sub(One, Mul(Mul(y, y), t)),
          y),
      Vec(Mul(Neg(x), t),
          Mul(Neg(y), t),
          One))

sphere_D_inner(abc, p, x, y, tanx, tany, t, derx, dery, Rlog) ==
  Mat(Vec(Add(p, Mul(Sub(One, Mul(Mul(x, tanx), t)), derx)),
          Mul(Mul(Mul(Neg(x), tany), t), dery),
          Add(Sub(Mul(x, Rlog), abc[0]), tanx)),
      Vec(Mul(Mul(Mul(Neg(y), tanx), t), derx),
          Add(p, Mul(Sub(One, Mul(Mul(y, tany), t)), dery)),
          Add(Sub(Mul(y, Rlog), abc[1]), tany)),
      Vec(Mul(Mul(Neg(tanx), t), derx),
          Mul(Mul(Neg(tany), t), dery),
          Rlog))

sphere_D(g, which_tree, abc) ==
  IF ~sphere_asserts(g, which_tree, abc) THEN Aborted("range")
  ELSE IF which_tree >= 12 THEN [status |-> "ok", ret |-> g.CdetJ]
  ELSE
    LET cx == cos(Mul(abc[0], M_PI_4))
        cy == cos(Mul(abc[1], M_PI_4))
        outer == which_tree < 6
        p == Sub(Two, abc[2])
        tanx == tan(Mul(abc[0], M_PI_4))
        tany == tan(Mul(abc[1], M_PI_4))
        tsqr == Add(Mul(tanx, tanx), Mul(tany, tany))
        derx == IF outer THEN Div(M_PI_4, Mul(cx, cx))
                ELSE Div(Mul(Sub(One, p), M_PI_4), Mul(cx, cx))
        dery == IF outer THEN Div(M_PI_4, Mul(cy, cy))
                ELSE Div(Mul(Sub(One, p), M_PI_4), Mul(cy, cy))
        x == IF outer THEN tanx
             ELSE Add(Mul(p, abc[0]), Mul(Sub(One, p), tanx))
        y == IF outer THEN tany
             ELSE Add(Mul(p, abc[1]), Mul(Sub(One, p), tany))
        R == IF outer THEN Mul(g.R1sqrbyR2, pow(g.R2byR1, abc[2]))
             ELSE Mul(g.R0sqrbyR1, pow(g.R1byR0, abc[2]))
        t == IF outer THEN Div(One, Add(Add(Mul(x, x), Mul(y, y)), One))
             ELSE Div(One, Add(Add(One, Mul(Sub(One, p), tsqr)), Mul(Two, p)))
        q == Mul(R, sqrt(t))
        Rlog == IF outer THEN g.R1log
                ELSE Add(g.R0log, Mul(t, Sub(One, Mul(Half, tsqr))))
        J == IF outer THEN sphere_D_outer(x, y, t)
             ELSE sphere_D_inner(abc, p, x, y, tanx, tany, t, derx, dery, Rlog)
        factor == IF outer
                    THEN Mul(Mul(Mul(Mul(Mul(q, q), q), derx), dery), Rlog)
                    ELSE Mul(Mul(q, q), q)
        detJ == Mul(det3(J), factor)
    IN  IF ~Lt(Zero, detJ) THEN Aborted("detJ")
        ELSE [status |-> "ok", ret |-> detJ]

(* J[j0], J[j1], J[j2] are the three rows the branch writes; every row of
   mapJ is a permutation of 0..2, so every row of J is written *)
Rows(j0, j1, j2, M) ==
  [i \in 0..2 |-> IF i = j2 THEN M[2] ELSE IF i = j1 THEN M[1] ELSE M[0]]

sphere_J_outer(pid, q, x, y, t, derx, dery, Rlog) ==
  LET j0 == mapJ[pid][0]
      j1 == mapJ[pid][1]
      j2 == mapJ[pid][2]
      q0 == Mul(mapM[pid][0], q)
      q1 == Mul(mapM[pid][1], q)
      q2 == Mul(mapM[pid][2], q)
  IN  Rows(j0, j1, j2,
      Mat(Vec(Mul(Mul(q0, Sub(One, Mul(Mul(x, x), t))), derx),
              Mul(Mul(Mul(Mul(Neg(q0), x), y), t), dery),
              Mul(Mul(q0, x), Rlog)),
          Vec(Mul(Mul(Mul(Mul(Neg(q1), x), y), t), derx),
              Mul(Mul(q1, Sub(One, Mul(Mul(y, y), t))), dery),
              Mul(Mul(q1, y), Rlog)),
          Vec(Mul(Mul(Mul(Neg(q2), x), t), derx),
              Mul(Mul(Mul(Neg(q2), y), t), dery),
              Mul(q2, Rlog))))

sphere_J_inner(pid, abc, p, q, x, y, tanx, tany, t, derx, dery, Rlog) ==
  LET j0 == mapJ[pid][0]
      j1 == mapJ[pid][1]
      j2 == mapJ[pid][2]
      q0 == Mul(mapM[pid][0], q)
      q1 == Mul(mapM[pid][1], q)
      q2 == Mul(mapM[pid][2], q)
  IN  Rows(j0, j1, j2,
      Mat(Vec(Mul(q0, Add(p, Mul(Sub(One, Mul(Mul(x, tanx), t)), derx))),
              Mul(Mul(Mul(Mul(Neg(q0), x), tany), t), dery),
              Mul(q0, Add(Sub(Mul(x, Rlog), abc[0]), tanx))),
          Vec(Mul(Mul(Mul(Mul(Neg(q1), y), tanx), t), derx),
              Mul(q1, Add(p, Mul(Sub(One, Mul(Mul(y, tany), t)), dery))),
              Mul(q1, Add(Sub(Mul(y, Rlog), abc[1]), tany))),
          Vec(Mul(Mul(Mul(Neg(q2), tanx), t), derx),
              Mul(Mul(Mul(Neg(q2), tany), t), dery),
              Mul(q2, Rlog))))

sphere_J(g, which_tree, abc) ==
  IF ~sphere_asserts(g, which_tree, abc) THEN Aborted("range")
  ELSE IF which_tree >= 12 THEN
    [status |-> "ok",
     J |-> Mat(Vec(g.Clength, Zero, Zero), Vec(Zero, g.Clength, Zero),
               Vec(Zero, Zero, g.Clength)),
     ret |-> g.CdetJ]
  ELSE
    LET cx == cos(Mul(abc[0], M_PI_4))
        cy == cos(Mul(abc[1], M_PI_4))
        outer == which_tree < 6
        p == Sub(Two, abc[2])
        tanx == tan(Mul(abc[0], M_PI_4))
        tany == tan(Mul(abc[1], M_PI_4))
        tsqr == Add(Mul(tanx, tanx), Mul(tany, tany))
        derx == IF outer THEN Div(M_PI_4, Mul(cx, cx))
                ELSE Div(Mul(Sub(One, p), M_PI_4), Mul(cx, cx))
        dery == IF outer THEN Div(M_PI_4, Mul(cy, cy))
                ELSE Div(Mul(Sub(One, p), M_PI_4), Mul(cy, cy))
        x == IF outer THEN tanx
             ELSE Add(Mul(p, abc[0]), Mul(Sub(One, p), tanx))
        y == IF outer THEN tany
             ELSE Add(Mul(p, abc[1]), Mul(Sub(One, p), tany))
        R == IF outer THEN Mul(g.R1sqrbyR2, pow(g.R2byR1, abc[2]))
             ELSE Mul(g.R0sqrbyR1, pow(g.R1byR0, abc[2]))
        t == IF outer THEN Div(One, Add(Add(Mul(x, x), Mul(y, y)), One))
             ELSE Div(One, Add(Add(One, Mul(Sub(One, p), tsqr)), Mul(Two, p)))
        q == Mul(R, sqrt(t))
        Rlog == IF outer THEN g.R1log
                ELSE Add(g.R0log, Mul(t, Sub(One, Mul(Half, tsqr))))
        pid == IF outer THEN which_tree ELSE which_tree - 6
        J == IF outer THEN sphere_J_outer(pid, q, x, y, t, derx, dery, Rlog)
             ELSE sphere_J_inner(pid, abc, p, q, x, y, tanx, tany, t, derx, dery, Rlog)
        detJ == det3(J)
    IN  IF ~Lt(Zero, detJ) THEN Aborted("detJ")
        ELSE [status |-> "ok", J |-> J, ret |-> detJ]

(* new_sphere with the cube in CdetJ taken of R0 alone *)
new_sphere_CdetJ_of_R0(R2, R1, R0) ==
  [type |-> "sphere", R2 |-> R2, R1 |-> R1, R0 |-> R0,
   R2byR1 |-> Div(R2, R1),
   R1sqrbyR2 |-> Div(Mul(R1, R1), R2),
   R1log |-> log(Div(R2, R1)),
   R1byR0 |-> Div(R1, R0),
   R0sqrbyR1 |-> Div(Mul(R0, R0), R1),
   R0log |-> log(Div(R1, R0)),
   Clength |-> Div(R0, sqrt(<<3, 1>>)),
   CdetJ |-> Div(pow(R0, <<3, 1>>), sqrt(<<3, 1>>)),
   X |-> "sphere_X", D |-> "sphere_D", J |-> "sphere_J", Jit |-> "Jit"]

new_sphere(R2, R1, R0) ==
  [type |-> "sphere", R2 |-> R2, R1 |-> R1, R0 |-> R0,
   R2byR1 |-> Div(R2, R1),
   R1sqrbyR2 |-> Div(Mul(R1, R1), R2),
   R1log |-> log(Div(R2, R1)),
   R1byR0 |-> Div(R1, R0),
   R0sqrbyR1 |-> Div(Mul(R0, R0), R1),
   R0log |-> log(Div(R1, R0)),
   Clength |-> Div(R0, sqrt(<<3, 1>>)),
   CdetJ |-> pow(Div(R0, sqrt(<<3, 1>>)), <<3, 1>>),
   X |-> "sphere_X", D |-> "sphere_D", J |-> "sphere_J", Jit |-> "Jit"]

------------------------------------------------------------------------------
(* dispatch through the function pointers of p8est_geometry_t *)

geom_X(g, which_tree, abc) ==
  CASE g.X = "identity_X" -> identity_X(g, which_tree, abc)
    [] g.X = "shell_X" -> shell_X(g, which_tree, abc)
    [] g.X = "sphere_X" -> sphere_X(g, which_tree, abc)

geom_D(g, which_tree, abc) ==
  CASE g.D = "identity_D" -> identity_D(g, which_tree, abc)
    [] g.D = "shell_D" -> shell_D(g, which_tree, abc)
    [] g.D = "sphere_D" -> sphere_D(g, which_tree, abc)

geom_J(g, which_tree, abc) ==
  CASE g.J = "identity_J" -> identity_J(g, which_tree, abc)
    [] g.J = "shell_J" -> shell_J(g, which_tree, abc)
    [] g.J = "sphere_J" -> sphere_J(g, which_tree, abc)

(* p8est_geometry_Jit's entries with the two products of the first one
   added, not subtracted *)
Jit_entries_first_added(J, idetJ) ==
  Mat(Vec(Mul(Add(Mul(J[1][1], J[2][2]), Mul(J[1][2], J[2][1])), idetJ),
          Mul(Sub(Mul(J[1][2], J[2][0]), Mul(J[1][0], J[2][2])), idetJ),
          Mul(Sub(Mul(J[1][0], J[2][1]), Mul(J[1][1], J[2][0])), idetJ)),
      Vec(Mul(Sub(Mul(J[0][2], J[2][1]), Mul(J[0][1], J[2][2])), idetJ),
          Mul(Sub(Mul(J[0][0], J[2][2]), Mul(J[0][2], J[2][0])), idetJ),
          Mul(Sub(Mul(J[0][1], J[2][0]), Mul(J[0][0], J[2][1])), idetJ)),
      Vec(Mul(Sub(Mul(J[0][1], J[1][2]), Mul(J[1][1], J[0][2])), idetJ),
          Mul(Sub(Mul(J[0][2], J[1][0]), Mul(J[1][2], J[0][0])), idetJ),
          Mul(Sub(Mul(J[0][0], J[1][1]), Mul(J[1][0], J[0][1])), idetJ)))

(* the nine entries of p8est_geometry_Jit *)
Jit_entries(J, idetJ) ==
  Mat(Vec(Mul(Sub(Mul(J[1][1], J[2][2]), Mul(J[1][2], J[2][1])), idetJ),
          Mul(Sub(Mul(J[1][2], J[2][0]), Mul(J[1][0], J[2][2])), idetJ),
          Mul(Sub(Mul(J[1][0], J[2][1]), Mul(J[1][1], J[2][0])), idetJ)),
      Vec(Mul(Sub(Mul(J[0][2], J[2][1]), Mul(J[0][1], J[2][2])), idetJ),
          Mul(Sub(Mul(J[0][0], J[2][2]), Mul(J[0][2], J[2][0])), idetJ),
          Mul(Sub(Mul(J[0][1], J[2][0]), Mul(J[0][0], J[2][1])), idetJ)),
      Vec(Mul(Sub(Mul(J[0][1], J[1][2]), Mul(J[1][1], J[0][2])), idetJ),
          Mul(Sub(Mul(J[0][2], J[1][0]), Mul(J[1][2], J[0][0])), idetJ),
          Mul(Sub(Mul(J[0][0], J[1][1]), Mul(J[1][0], J[0][1])), idetJ)))

(* p8est_geometry_Jit returning the matrix of geom->J as it is *)
Jit_from_J_not_inverted(r) ==
  IF r.status = "abort" THEN r
  ELSE [status |-> "ok", Jit |-> r.J, ret |-> r.ret]

(* the body of p8est_geometry_Jit after its call r of geom->J: idetJ is
   1. / detJ, the entries are scaled by it and detJ is returned *)
Jit_from_J(r) ==
  IF r.status = "abort" THEN r
  ELSE [status |-> "ok", Jit |-> Jit_entries(r.J, Div(One, r.ret)),
        ret |-> r.ret]

p8est_geometry_Jit(g, which_tree, abc) ==
  Jit_from_J(geom_J(g, which_tree, abc))

geom_Jit(g, which_tree, abc) ==
  CASE g.Jit = "identity_J" ->
         LET r == identity_J(g, which_tree, abc)
         IN  [status |-> "ok", Jit |-> r.J, ret |-> r.ret]
    [] g.Jit = "Jit" -> p8est_geometry_Jit(g, which_tree, abc)


------------------------------------------------------------------------------
(* the geometries and the inputs of the model *)

MaxRatio == 3

(* radii: each outer radius is a multiple 2..MaxRatio of the next inner one *)
Ratios == {<<r, 1>> : r \in 2..MaxRatio}

Geometries ==
  {new_identity}
    \cup {new_shell(Mul(r, One), One) : r \in Ratios}
    \cup {new_sphere(Mul(Mul(r2, r1), Half), Mul(r1, Half), Half) :
            r1 \in Ratios, r2 \in Ratios}

(* tree indices, with one below and one above every asserted range *)
TreeInputs == -1..24

(* reference coordinates: the domain's corners, edges and centre, and
   values outside it *)
AngularInputs == {<<-1, 1>>, Zero, One, Two}

RadialInputs == {<<-1, 1>>, Zero, One, <<3, 2>>, Two, <<3, 1>>}

AbcInputs ==
  {Vec(a, b, c) : a \in AngularInputs, b \in AngularInputs, c \in RadialInputs}

NoCall == [op |-> "none"]

NoConn == [state |-> "none"]

NoQuery == [op |-> "none"]

Init ==
  /\ geom \in Geometries
  /\ call = NoCall
  /\ conn = NoConn
  /\ query = NoQuery

Called(op, which_tree, abc, out) ==
  [op |-> op, which_tree |-> which_tree, abc |-> abc, out |-> out]

(* X is also called half way along the first two axes, where tan is not the
   identity *)
XInputs ==
  {Vec(a, b, c) : a \in AngularInputs \cup {Half}, b \in AngularInputs \cup {Half},
                  c \in RadialInputs}

X ==
  /\ call = NoCall
  /\ \E which_tree \in TreeInputs, abc \in XInputs :
       call' = Called("X", which_tree, abc, geom_X(geom, which_tree, abc))
  /\ UNCHANGED <<geom, conn, query>>

D ==
  /\ call = NoCall
  /\ \E which_tree \in TreeInputs, abc \in AbcInputs :
       call' = Called("D", which_tree, abc, geom_D(geom, which_tree, abc))
  /\ UNCHANGED <<geom, conn, query>>

J ==
  /\ call = NoCall
  /\ \E which_tree \in TreeInputs, abc \in AbcInputs :
       call' = Called("J", which_tree, abc, geom_J(geom, which_tree, abc))
  /\ UNCHANGED <<geom, conn, query>>

Jit ==
  /\ call = NoCall
  /\ \E which_tree \in TreeInputs, abc \in AbcInputs :
       call' = Called("Jit", which_tree, abc, geom_Jit(geom, which_tree, abc))
  /\ UNCHANGED <<geom, conn, query>>

(* the caller takes the result; the geometry is ready for the next call *)
Return ==
  /\ call # NoCall
  /\ call' = NoCall
  /\ UNCHANGED <<geom, conn, query>>

Next == X \/ D \/ J \/ Jit \/ Return

Spec == Init /\ [][Next]_vars

------------------------------------------------------------------------------
(* The type double.  The operators above compute in exact arithmetic; here
   every operation rounds its result to the nearest number with
   MantissaBits significant bits, ties to even, as IEEE arithmetic does
   with 53 bits. *)

MantissaBits == 7

RECURSIVE NormDown(_, _, _)
NormDown(n, d, e) ==
  IF n \div d >= 2 ^ MantissaBits
    THEN IF n % 2 = 0 THEN NormDown(n \div 2, d, e + 1)
                      ELSE NormDown(n, 2 * d, e + 1)
    ELSE <<n, d, e>>

RECURSIVE NormUp(_, _, _)
NormUp(n, d, e) ==
  IF n \div d < 2 ^ (MantissaBits - 1)
    THEN IF d % 2 = 0 THEN NormUp(n, d \div 2, e - 1)
                      ELSE NormUp(2 * n, d, e - 1)
    ELSE <<n, d, e>>

(* |r| = (n / d) * 2^e with 2^(MantissaBits-1) <= n / d < 2^MantissaBits *)
Normalized(r) ==
  LET s == NormDown(Abs(r[1]), r[2], 0)
  IN  NormUp(s[1], s[2], s[3])

RoundedMantissa(n, d) ==
  LET m == n \div d
      rem == n % d
  IN  IF 2 * rem > d \/ (2 * rem = d /\ m % 2 = 1) THEN m + 1 ELSE m

Scaled(m, e) == IF e >= 0 THEN Rat(m * (2 ^ e), 1) ELSE Rat(m, 2 ^ (0 - e))

RoundedTo(s, negative) ==
  LET v == Scaled(RoundedMantissa(s[1], s[2]), s[3])
  IN  IF negative THEN Neg(v) ELSE v

double(r) == IF r[1] = 0 THEN Zero ELSE RoundedTo(Normalized(r), r[1] < 0)

dAdd(a, b) == double(Add(a, b))

dSub(a, b) == double(Sub(a, b))

dMul(a, b) == double(Mul(a, b))

dDiv(a, b) == double(Div(a, b))

(* shell_D and the outer shell of sphere_D, from t to the determinant, in
   double arithmetic *)
t_double(x, y) == dDiv(One, dAdd(dAdd(dMul(x, x), dMul(y, y)), One))

shell_D_matrix_double(x, y, t) ==
  Mat(Vec(dSub(One, dMul(dMul(x, x), t)),
          dMul(dMul(Neg(x), y), t),
          x),
      Vec(dMul(dMul(Neg(x), y), t),
          dSub(One, dMul(dMul(y, y), t)),
          y),
      Vec(dMul(Neg(x), t),
          dMul(Neg(y), t),
          One))

det3_double(M) ==
  dAdd(dAdd(dMul(M[0][0], dSub(dMul(M[1][1], M[2][2]), dMul(M[1][2], M[2][1]))),
            dMul(M[0][1], dSub(dMul(M[1][2], M[2][0]), dMul(M[1][0], M[2][2])))),
       dMul(M[0][2], dSub(dMul(M[1][0], M[2][1]), dMul(M[1][1], M[2][0]))))

detJ_double_of(x, y, t) ==
  [op |-> "detJ_double", x |-> x, y |-> y, t |-> t,
   out |-> det3_double(shell_D_matrix_double(x, y, t))]

(* x and y are the results of tan on [-pi/4, pi/4]: doubles of [-1, 1] *)
GridBits == 3

DoubleInputs ==
  {double(Rat(k, 2 ^ GridBits)) : k \in (0 - 2 ^ GridBits)..(2 ^ GridBits)}

detJ_double ==
  /\ call = NoCall
  /\ \E x \in DoubleInputs, y \in DoubleInputs :
       call' = detJ_double_of(x, y, t_double(x, y))
  /\ UNCHANGED <<geom, conn, query>>

NextDouble == Next \/ detJ_double

SpecDouble == Init /\ [][NextDouble]_vars

------------------------------------------------------------------------------

(* connectivity: p8est_connectivity.h declares the structure and its
   operations; their bodies follow the specification's sections 3 and 4.
   Vertices and corners, and the entries of ftransform and of an edge
   transform that are read from the cube tables, are not part of the model. *)

P8EST_DIM == 3

P8EST_FACES == 2 * P8EST_DIM

P8EST_EDGES == 12

(* a C array from the list of its entries *)
(* p8est_connect_type_t *)
P8EST_CONNECT_FACE == 31

P8EST_CONNECT_EDGE == 32

P8EST_CONNECT_CORNER == 33

P8EST_CONNECT_DEFAULT == P8EST_CONNECT_EDGE

P8EST_CONNECT_FULL == P8EST_CONNECT_CORNER

(* the enumerators by name *)
p8est_connect_type_t ==
  [FACE |-> P8EST_CONNECT_FACE, EDGE |-> P8EST_CONNECT_EDGE,
   CORNER |-> P8EST_CONNECT_CORNER, DEFAULT |-> P8EST_CONNECT_DEFAULT,
   FULL |-> P8EST_CONNECT_FULL]

p8est_connect_type_int_from_zero(btype) == btype - P8EST_CONNECT_FACE

(* p8est_connect_type_int: returns 1, 2 or 3 *)
p8est_connect_type_int(btype) ==
  CASE btype = P8EST_CONNECT_FACE -> 1
    [] btype = P8EST_CONNECT_EDGE -> 2
    [] btype = P8EST_CONNECT_CORNER -> 3

Arr(s) == [i \in 0..(Len(s) - 1) |-> s[i + 1]]

Size(a) == Cardinality(DOMAIN a)

Trees(c) == 0..(c.num_trees - 1)

Faces == 0..(P8EST_FACES - 1)

Edges == 0..(P8EST_EDGES - 1)

(* positions [ett_offset[e]] .. [ett_offset[e+1]-1] of the edge_to_* arrays *)
Bucket(c, e) == c.ett_offset[e]..(c.ett_offset[e + 1] - 1)

(* p8est_connectivity_new followed by the copy of the arrays: the edge_to_*
   arrays hold num_ett = eoff[num_edges] entries; the attribute fields are
   NULL *)
Populated(num_trees, num_edges, ttt, ttf, tte, eoff, ett, ete) ==
  [state |-> "live", num_trees |-> num_trees, num_edges |-> num_edges,
   tree_to_attr |-> "NULL",
   tree_to_tree |-> ttt, tree_to_face |-> ttf, tree_to_edge |-> tte,
   ett_offset |-> eoff,
   edge_to_tree |-> [i \in 0..(eoff[num_edges] - 1) |-> ett[i]],
   edge_to_edge |-> [i \in 0..(eoff[num_edges] - 1) |-> ete[i]]]

p8est_connectivity_set_attr_allocates_again(c, enable_tree_attr) ==
  IF enable_tree_attr
    THEN [conn |-> [c EXCEPT !.tree_to_attr = "allocated"], ret |-> "void"]
    ELSE [conn |-> [c EXCEPT !.tree_to_attr = "NULL"], ret |-> "void"]

(* p8est_connectivity_set_attr: if false, tree_to_attr is freed (NULL is
   ok); if true, it must be NULL and is allocated.  A call that breaks the
   "must be NULL" requirement is reported as such and leaves the array as it
   was *)
p8est_connectivity_set_attr(c, enable_tree_attr) ==
  IF enable_tree_attr
    THEN IF c.tree_to_attr = "NULL"
           THEN [conn |-> [c EXCEPT !.tree_to_attr = "allocated"], ret |-> "void"]
           ELSE [conn |-> c, ret |-> "must_be_NULL"]
    ELSE [conn |-> [c EXCEPT !.tree_to_attr = "NULL"], ret |-> "void"]

(* the arguments of p8est_connectivity_new_copy *)
Args(num_trees, num_edges, ttt, ttf, tte, eoff, ett, ete) ==
  [num_trees |-> num_trees, num_edges |-> num_edges,
   ttt |-> Arr(ttt), ttf |-> Arr(ttf), tte |-> Arr(tte),
   eoff |-> Arr(eoff), ett |-> Arr(ett), ete |-> Arr(ete)]

FromArgs(a) ==
  Populated(a.num_trees, a.num_edges, a.ttt, a.ttf, a.tte, a.eoff, a.ett, a.ete)

(* unitcube: one tree, every face a boundary, no edge record *)
unitcube_args ==
  Args(1, 0,
       <<0, 0, 0, 0, 0, 0>>,
       <<0, 1, 2, 3, 4, 5>>,
       <<-1, -1, -1, -1, -1, -1, -1, -1, -1, -1, -1, -1>>,
       <<0>>, <<>>, <<>>)

(* periodic: one tree, the three pairs of opposite faces identified with
   orientation 0; the four parallel edges of each direction are one edge *)
periodic_args ==
  Args(1, 3,
       <<0, 0, 0, 0, 0, 0>>,
       <<1, 0, 3, 2, 5, 4>>,
       <<0, 0, 0, 0, 1, 1, 1, 1, 2, 2, 2, 2>>,
       <<0, 4, 8, 12>>,
       <<0, 0, 0, 0, 0, 0, 0, 0, 0, 0, 0, 0>>,
       <<0, 1, 2, 3, 4, 5, 6, 7, 8, 9, 10, 11>>)

(* twocubes: two trees glued on one face, +x of tree 0 to -x of tree 1 *)
twocubes_args ==
  Args(2, 0,
       <<0, 1, 0, 0, 0, 0, 0, 1, 1, 1, 1, 1>>,
       <<0, 0, 2, 3, 4, 5, 1, 1, 2, 3, 4, 5>>,
       <<-1, -1, -1, -1, -1, -1, -1, -1, -1, -1, -1, -1,
         -1, -1, -1, -1, -1, -1, -1, -1, -1, -1, -1, -1>>,
       <<0>>, <<>>, <<>>)

p8est_connectivity_new_unitcube == FromArgs(unitcube_args)

p8est_connectivity_new_periodic == FromArgs(periodic_args)

p8est_connectivity_new_twocubes == FromArgs(twocubes_args)

(* face codes 1..3: the first corner of the lower face meets another corner
   than the first one of the higher face, the faces are rotated against
   each other *)
RotatedCodes == 1..3

rotwrap_ttf_front_back_rotated(o) == <<1, 0, 3 + 6 * o, 2 + 6 * o, 4, 5>>

(* rotwrap: one tree; left and right (-x, +x) identified, bottom and top
   (-z, +z) identified with a rotation, front and back (-y, +y) not
   identified *)
rotwrap_ttf(o) == <<1, 0, 2, 3, 5 + 6 * o, 4 + 6 * o>>

rotwrap_args(o) ==
  Args(1, 0,
       <<0, 0, 0, 0, 0, 0>>,
       rotwrap_ttf(o),
       <<-1, -1, -1, -1, -1, -1, -1, -1, -1, -1, -1, -1>>,
       <<0>>, <<>>, <<>>)

(* the header does not give the code of the rotation: each rotated code is
   a possible result *)
p8est_connectivity_new_rotwrap ==
  {FromArgs(rotwrap_args(o)) : o \in RotatedCodes}

(* p8est_connectivity_is_valid, counts and index ranges: counts are not
   negative, every stored tree index is in [0, num_trees), every edge index
   is >= -1 and < num_edges, every face and edge code is in 0..23 *)
indices_valid(c) ==
  /\ c.num_trees >= 0
  /\ c.num_edges >= 0
  /\ \A e \in 0..(c.num_edges - 1) : c.ett_offset[e] <= c.ett_offset[e + 1]
  /\ \A i \in DOMAIN c.tree_to_tree : c.tree_to_tree[i] \in Trees(c)
  /\ \A i \in DOMAIN c.tree_to_face :
       c.tree_to_face[i] \in 0..(4 * P8EST_FACES - 1)
  /\ \A i \in DOMAIN c.tree_to_edge :
       c.tree_to_edge[i] \in -1..(c.num_edges - 1)
  /\ \A i \in DOMAIN c.edge_to_tree : c.edge_to_tree[i] \in Trees(c)
  /\ \A i \in DOMAIN c.edge_to_edge :
       c.edge_to_edge[i] \in 0..(2 * P8EST_EDGES - 1)

(* face reciprocity that compares the tree and the face and not the
   orientation *)
faces_reciprocal_without_orientation(c) ==
  \A t \in Trees(c), f \in Faces :
    LET ntree == c.tree_to_tree[t * P8EST_FACES + f]
        nface == c.tree_to_face[t * P8EST_FACES + f] % P8EST_FACES
    IN  /\ c.tree_to_tree[ntree * P8EST_FACES + nface] = t
        /\ c.tree_to_face[ntree * P8EST_FACES + nface] % P8EST_FACES = f

(* p8est_connectivity_is_valid, face reciprocity: the face that face f of
   tree t points to points back to (t, f) with the same orientation; a
   self-connected face has orientation 0 *)
faces_reciprocal(c) ==
  \A t \in Trees(c), f \in Faces :
    LET ntree == c.tree_to_tree[t * P8EST_FACES + f]
        nface == c.tree_to_face[t * P8EST_FACES + f] % P8EST_FACES
        orientation == c.tree_to_face[t * P8EST_FACES + f] \div P8EST_FACES
    IN  /\ c.tree_to_tree[ntree * P8EST_FACES + nface] = t
        /\ c.tree_to_face[ntree * P8EST_FACES + nface]
             = f + P8EST_FACES * orientation
        /\ (ntree = t /\ nface = f) => orientation = 0

(* edge inclusion that accepts an entry of either orientation, any number
   of times *)
edges_included_any_orientation(c) ==
  /\ \A e \in 0..(c.num_edges - 1) : \A i \in Bucket(c, e) :
       c.tree_to_edge[c.edge_to_tree[i] * P8EST_EDGES
                        + (c.edge_to_edge[i] % P8EST_EDGES)] = e
  /\ \A t \in Trees(c), e \in Edges :
       LET k == c.tree_to_edge[t * P8EST_EDGES + e]
       IN  k >= 0 =>
             \E i \in Bucket(c, k) :
               c.edge_to_tree[i] = t /\ c.edge_to_edge[i] % P8EST_EDGES = e

(* p8est_connectivity_is_valid, edge inclusion: every entry of a bucket
   names a tree edge that maps to the bucket, and the bucket of a tree edge
   holds that tree edge with identity orientation, once *)
edges_included(c) ==
  /\ \A e \in 0..(c.num_edges - 1) : \A i \in Bucket(c, e) :
       c.tree_to_edge[c.edge_to_tree[i] * P8EST_EDGES
                        + (c.edge_to_edge[i] % P8EST_EDGES)] = e
  /\ \A t \in Trees(c), e \in Edges :
       LET k == c.tree_to_edge[t * P8EST_EDGES + e]
       IN  k >= 0 =>
             Cardinality({i \in Bucket(c, k) :
                            c.edge_to_tree[i] = t /\ c.edge_to_edge[i] = e}) = 1

p8est_connectivity_is_valid_without_edges(c) ==
  indices_valid(c) /\ faces_reciprocal(c)

p8est_connectivity_is_valid(c) ==
  indices_valid(c) /\ faces_reciprocal(c) /\ edges_included(c)

(* find_face_transform reporting a boundary whenever the neighbor is the
   tree itself *)
p8est_find_face_transform_same_tree(c, itree, iface) ==
  LET ntree == c.tree_to_tree[itree * P8EST_FACES + iface]
      nface == c.tree_to_face[itree * P8EST_FACES + iface] % P8EST_FACES
  IN  IF ntree = itree THEN [ret |-> -1]
      ELSE [ret |-> ntree, nface |-> nface,
            ftransform8 |-> IF iface % 2 = 0 /\ nface % 2 = 1 THEN 0
                            ELSE IF iface % 2 = 1 /\ nface % 2 = 0 THEN 1
                            ELSE 2]

(* find_face_transform with the face code taken from the origin face alone *)
p8est_find_face_transform_origin_side(c, itree, iface) ==
  LET ntree == c.tree_to_tree[itree * P8EST_FACES + iface]
      nface == c.tree_to_face[itree * P8EST_FACES + iface] % P8EST_FACES
  IN  IF ntree = itree /\ nface = iface THEN [ret |-> -1]
      ELSE [ret |-> ntree, nface |-> nface,
            ftransform8 |-> IF iface % 2 = 0 THEN 2 ELSE 1]

(* p8est_find_face_transform: -1 and no ftransform when the face is
   self-connected; otherwise the neighbor tree, and in ftransform[8] 0 for a
   minus face meeting a plus face, 1 for plus meeting minus and 2 for two
   faces of the same side.  Faces are numbered -x +x -y +y -z +z. *)
p8est_find_face_transform(c, itree, iface) ==
  LET ntree == c.tree_to_tree[itree * P8EST_FACES + iface]
      nface == c.tree_to_face[itree * P8EST_FACES + iface] % P8EST_FACES
  IN  IF ntree = itree /\ nface = iface THEN [ret |-> -1]
      ELSE [ret |-> ntree, nface |-> nface,
            ftransform8 |-> IF iface % 2 = 0 /\ nface % 2 = 1 THEN 0
                            ELSE IF iface % 2 = 1 /\ nface % 2 = 0 THEN 1
                            ELSE 2]

(* the p8est_edge_transform_t of position i of the edge_to_* arrays *)
edge_transform(c, i) ==
  [ntree |-> c.edge_to_tree[i],
   nedge |-> c.edge_to_edge[i] % P8EST_EDGES,
   nflip |-> IF c.edge_to_edge[i] >= P8EST_EDGES THEN 1 ELSE 0]

(* the positions of a bucket with no entry left out *)
partners_with_origin(c, itree, iedge) ==
  LET k == c.tree_to_edge[itree * P8EST_EDGES + iedge]
  IN  IF k = -1 THEN {} ELSE Bucket(c, k)

(* the positions of the bucket of (itree, iedge) other than the origin
   entry; none when tree_to_edge is -1 *)
partners(c, itree, iedge) ==
  LET k == c.tree_to_edge[itree * P8EST_EDGES + iedge]
  IN  IF k = -1 THEN {}
      ELSE {i \in Bucket(c, k) :
              ~(c.edge_to_tree[i] = itree /\ c.edge_to_edge[i] = iedge)}

(* p8est_find_edge_transform: the transforms, in the order of the bucket,
   of the partners that are kept; a partner that face reciprocity reaches
   is suppressed *)
p8est_find_edge_transform(c, itree, iedge, kept) ==
  LET k == c.tree_to_edge[itree * P8EST_EDGES + iedge]
      n == IF k = -1 THEN 0 ELSE c.ett_offset[k + 1] - c.ett_offset[k]
      positions == [j \in 1..n |-> c.ett_offset[k] + j - 1]
      chosen == SelectSeq(positions, LAMBDA i : i \in kept)
  IN  [j \in 1..Len(chosen) |-> edge_transform(c, chosen[j])]

------------------------------------------------------------------------------
(* the connectivity's callers *)

(* one entry of one argument array overwritten, by a value of the entry's
   range (the value it has among them) or next to it; eoff stays within
   the arrays it indexes *)
Pokes(a) ==
  {<<"ttt", i, v>> : i \in DOMAIN a.ttt, v \in -1..a.num_trees}
    \cup {<<"ttf", i, v>> : i \in DOMAIN a.ttf, v \in -1..(4 * P8EST_FACES)}
    \cup {<<"tte", i, v>> : i \in DOMAIN a.tte, v \in -2..a.num_edges}
    \cup {<<"eoff", i, v>> : i \in DOMAIN a.eoff, v \in 0..Size(a.ett)}
    \cup {<<"ett", i, v>> : i \in DOMAIN a.ett, v \in -1..a.num_trees}
    \cup {<<"ete", i, v>> : i \in DOMAIN a.ete, v \in -1..(2 * P8EST_EDGES)}

Poke(a, p) == [a EXCEPT ![p[1]][p[2]] = p[3]]

(* the arrays a caller of new_copy starts from *)
FactoryArgs == {unitcube_args, periodic_args, twocubes_args}

InitConn ==
  /\ geom = new_identity
  /\ call = NoCall
  /\ conn = NoConn
  /\ query = NoQuery

Idle == conn = NoConn /\ query = NoQuery

new_unitcube ==
  /\ Idle
  /\ conn' = p8est_connectivity_new_unitcube
  /\ UNCHANGED <<geom, call, query>>

new_periodic ==
  /\ Idle
  /\ conn' = p8est_connectivity_new_periodic
  /\ UNCHANGED <<geom, call, query>>

new_twocubes ==
  /\ Idle
  /\ conn' = p8est_connectivity_new_twocubes
  /\ UNCHANGED <<geom, call, query>>

new_rotwrap ==
  /\ Idle
  /\ conn' \in p8est_connectivity_new_rotwrap
  /\ UNCHANGED <<geom, call, query>>

set_attr ==
  /\ conn # NoConn
  /\ query = NoQuery
  /\ \E enable_tree_attr \in BOOLEAN :
       LET r == p8est_connectivity_set_attr(conn, enable_tree_attr)
       IN  /\ conn' = r.conn
           /\ query' = [op |-> "set_attr", enable_tree_attr |-> enable_tree_attr,
                        before |-> conn.tree_to_attr, ret |-> r.ret]
  /\ UNCHANGED <<geom, call>>

connect_type_int ==
  /\ query = NoQuery
  /\ \E name \in DOMAIN p8est_connect_type_t :
       query' = [op |-> "connect_type_int", name |-> name,
                 btype |-> p8est_connect_type_t[name],
                 ret |-> p8est_connect_type_int(p8est_connect_type_t[name])]
  /\ UNCHANGED <<geom, call, conn>>

(* p8est_connectivity_new_copy: the copy is checked for validity; an
   invalid one is destroyed and the construction fails *)
new_copy ==
  /\ Idle
  /\ \E base \in FactoryArgs : \E p \in Pokes(base), q \in Pokes(base) :
       LET c == FromArgs(Poke(Poke(base, p), q))
       IN  IF p8est_connectivity_is_valid(c)
             THEN conn' = c /\ query' = query
             ELSE conn' = NoConn
                  /\ query' = [op |-> "new_copy", ret |-> "InvalidConnectivity"]
  /\ UNCHANGED <<geom, call>>

destroy ==
  /\ conn # NoConn
  /\ query = NoQuery
  /\ conn' = NoConn
  /\ UNCHANGED <<geom, call, query>>

find_face_transform ==
  /\ conn # NoConn
  /\ query = NoQuery
  /\ \E itree \in Trees(conn), iface \in Faces :
       query' = [op |-> "find_face_transform", itree |-> itree, iface |-> iface,
                 out |-> p8est_find_face_transform(conn, itree, iface)]
  /\ UNCHANGED <<geom, call, conn>>

find_edge_transform ==
  /\ conn # NoConn
  /\ query = NoQuery
  /\ \E itree \in Trees(conn), iedge \in Edges :
       \E kept \in SUBSET partners(conn, itree, iedge) :
         query' = [op |-> "find_edge_transform", itree |-> itree, iedge |-> iedge,
                   ei |-> p8est_find_edge_transform(conn, itree, iedge, kept)]
  /\ UNCHANGED <<geom, call, conn>>

(* the caller takes the result of the query or of the failed construction *)
Taken ==
  /\ query # NoQuery
  /\ query' = NoQuery
  /\ UNCHANGED <<geom, call, conn>>

NextConn ==
  \/ new_unitcube \/ new_periodic \/ new_rotwrap \/ new_twocubes
  \/ set_attr \/ new_copy \/ destroy
  \/ find_face_transform \/ find_edge_transform \/ connect_type_int \/ Taken

SpecConn == InitConn /\ [][NextConn]_vars

------------------------------------------------------------------------------
(* matrices and reference domains, for the properties below *)

MatMul(A, B) ==
  [i \in 0..2 |-> [j \in 0..2 |->
     Add(Add(Mul(A[i][0], B[0][j]), Mul(A[i][1], B[1][j])), Mul(A[i][2], B[2][j]))]]

Transpose(A) == [i \in 0..2 |-> [j \in 0..2 |-> A[j][i]]]

(* the (i, j) cofactor of a 3x3 matrix, by cyclic indices *)
Cofactor(A, i, j) ==
  Sub(Mul(A[(i + 1) % 3][(j + 1) % 3], A[(i + 2) % 3][(j + 2) % 3]),
      Mul(A[(i + 1) % 3][(j + 2) % 3], A[(i + 2) % 3][(j + 1) % 3]))

Le(a, b) == ~Lt(b, a)

Between(v, lo, hi) == Le(lo, v) /\ Le(v, hi)

(* a tree of the geometry's range and a point of its reference domain *)
InDomain(g, which_tree, abc) ==
  /\ Between(abc[0], Neg(One), One)
  /\ Between(abc[1], Neg(One), One)
  /\ CASE g.type = "shell" ->
            which_tree \in 0..23 /\ Between(abc[2], One, Two)
       [] g.type = "sphere" ->
            \/ which_tree \in 0..11 /\ Between(abc[2], One, Two)
            \/ which_tree = 12 /\ Between(abc[2], Neg(One), One)
       [] g.type = "identity" -> Between(abc[2], Neg(One), One)

Finished(op) == call.op = op /\ call.out.status = "ok"

------------------------------------------------------------------------------
(* C1: on the shell (R1 < R2) and on the sphere (R0 < R1 < R2), for every
   tree of the range and every point of its reference domain, D and J
   return, and return detJ > 0: no assertion detJ > 0 fails. *)
C1_DetJPositive ==
  (/\ call.op \in {"D", "J"}
   /\ geom.type \in {"shell", "sphere"}
   /\ InDomain(geom, call.which_tree, call.abc))
    => /\ call.out.status = "ok"
       /\ Lt(Zero, call.out.ret)

C1_Witness ==
  /\ Finished("J")
  /\ geom.type = "sphere"
  /\ call.which_tree \in 6..11
  /\ call.abc = Vec(One, Neg(One), <<3, 2>>)
  /\ Lt(Zero, call.out.ret)

(* C2: for every geometry, tree and point, the value D returns is the detJ
   that J returns, both computed exactly from the same ingredients. *)
C2_DEqualsDetJ ==
  /\ Finished("J") =>
       geom_D(geom, call.which_tree, call.abc)
         = [status |-> "ok", ret |-> call.out.ret]
  /\ Finished("D") =>
       LET r == geom_J(geom, call.which_tree, call.abc)
       IN  r.status = "ok" /\ r.ret = call.out.ret

C2_Witness ==
  /\ Finished("D")
  /\ geom.type = "sphere"
  /\ call.which_tree = 7
  /\ call.abc = Vec(One, Zero, <<3, 2>>)
  /\ call.out.ret = geom_J(geom, 7, call.abc).ret

(* C3: for every geometry and every point where detJ is non-zero, the
   TRANSPOSE of the matrix Jit returns, times the matrix J returns at the
   same tree and point, is the identity matrix. *)
C3_JitTransposedTimesJ ==
  Finished("Jit") =>
    LET r == geom_J(geom, call.which_tree, call.abc)
    IN  /\ r.status = "ok"
        /\ r.ret # Zero
        /\ MatMul(Transpose(call.out.Jit), r.J) = Identity3

(* C3 as stated: the matrix Jit returns times the matrix J returns is the
   identity matrix. *)
C3_JitTimesJ ==
  Finished("Jit") =>
    MatMul(call.out.Jit, geom_J(geom, call.which_tree, call.abc).J) = Identity3

C3_Witness ==
  /\ Finished("Jit")
  /\ geom.type = "shell"
  /\ call.out.Jit # Transpose(call.out.Jit)
  /\ MatMul(Transpose(call.out.Jit),
            geom_J(geom, call.which_tree, call.abc).J) = Identity3

(* C4: the default Jit returns the inverse-transpose of the J of the
   geometry's own J operation: each Jit[i][j] is the (i, j) cofactor of J
   divided by detJ, and J times the transpose of Jit is the identity. *)
C4_JitIsCofactorsByDetJ ==
  (Finished("Jit") /\ geom.Jit = "Jit") =>
    LET r == geom_J(geom, call.which_tree, call.abc)
    IN  /\ call.out.ret = r.ret
        /\ \A i \in 0..2, j \in 0..2 :
             call.out.Jit[i][j] = Div(Cofactor(r.J, i, j), r.ret)
        /\ MatMul(r.J, Transpose(call.out.Jit)) = Identity3

C4_Witness ==
  /\ Finished("Jit")
  /\ geom.Jit = "Jit"
  /\ geom.type = "sphere"
  /\ call.which_tree = 9
  /\ call.abc = Vec(One, One, <<3, 2>>)
  /\ call.out.Jit[0][1] = Div(Cofactor(geom_J(geom, 9, call.abc).J, 0, 1),
                              call.out.ret)

(* the patches of the shell in the order right, bottom, left, top, back,
   front *)
ShellPatches(q, qx, qy) ==
  <<Vec(q, Neg(qx), Neg(qy)),
    Vec(Neg(qy), Neg(qx), Neg(q)),
    Vec(Neg(q), Neg(qx), qy),
    Vec(qy, Neg(qx), q),
    Vec(Neg(qx), q, qy),
    Vec(qx, Neg(q), qy)>>

ShellRadius(g, c) == Mul(g.R1sqrbyR2, pow(g.R2byR1, c))

(* C10: the shell's X selects its patch by which_tree / 4, four trees to
   each of the six patches right, bottom, left, top, back, front, with xyz
   (q, -qx, -qy), (-qy, -qx, -q), (-q, -qx, qy), (qy, -qx, q), (-qx, q, qy),
   (qx, -q, qy); tree 0 at (0, 0, c) maps to (R, 0, 0). *)
C10_ShellPatchTable ==
  /\ \A patch \in 0..5 : Cardinality({t \in 0..23 : t \div 4 = patch}) = 4
  /\ (Finished("X") /\ geom.type = "shell") =>
       LET x == tan(Mul(call.abc[0], M_PI_4))
           y == tan(Mul(call.abc[1], M_PI_4))
           R == ShellRadius(geom, call.abc[2])
           q == Div(R, sqrt(Add(Add(Mul(x, x), Mul(y, y)), One)))
       IN  /\ call.out.xyz
                = ShellPatches(q, Mul(q, x), Mul(q, y))[call.which_tree \div 4 + 1]
           /\ (call.which_tree = 0 /\ call.abc[0] = Zero /\ call.abc[1] = Zero)
                => call.out.xyz = Vec(R, Zero, Zero)

C10_Witness ==
  /\ Finished("X")
  /\ geom.type = "shell"
  /\ call.which_tree = 0
  /\ call.abc = Vec(Zero, Zero, <<3, 2>>)
  /\ call.out.xyz = Vec(ShellRadius(geom, <<3, 2>>), Zero, Zero)

------------------------------------------------------------------------------
(* connectivity properties *)

Live == conn # NoConn

Asked(op) == query # NoQuery /\ query.op = op

(* C5: face reciprocity.  In every valid connectivity, for every tree t and
   face f, with t' = tree_to_tree[t][f], f' = tree_to_face[t][f] % 6 and
   o = tree_to_face[t][f] / 6, the entry of (t', f') is tree t and code
   f + 6 o, and every code is in 0..23. *)
C5_FaceReciprocity ==
  Live =>
    \A t \in Trees(conn), f \in Faces :
      LET t1 == conn.tree_to_tree[t * 6 + f]
          f1 == conn.tree_to_face[t * 6 + f] % 6
          o == conn.tree_to_face[t * 6 + f] \div 6
      IN  /\ conn.tree_to_face[t * 6 + f] \in 0..23
          /\ conn.tree_to_tree[t1 * 6 + f1] = t
          /\ conn.tree_to_face[t1 * 6 + f1] = f + 6 * o

(* a copy with the faces -x and +y of the unit cube glued with
   orientation 2, which no factory builds *)
C5_Witness ==
  /\ Live
  /\ conn.num_trees = 1
  /\ conn.tree_to_face[0] = 3 + 6 * 2
  /\ conn.tree_to_face[3] = 0 + 6 * 2

(* C6: find_face_transform returns -1 exactly when the face entry of
   (tree, face) is self-connected, and otherwise the neighbor tree of
   tree_to_tree[tree][face], which is in [0, num_trees). *)
C6_FaceTransformReturn ==
  Asked("find_face_transform") =>
    LET ntree == conn.tree_to_tree[query.itree * 6 + query.iface]
        nface == conn.tree_to_face[query.itree * 6 + query.iface] % 6
        self == ntree = query.itree /\ nface = query.iface
    IN  /\ query.out.ret = -1 <=> self
        /\ ~self => query.out.ret = ntree /\ ntree \in 0..(conn.num_trees - 1)

(* the neighbor across a periodic face, which is the tree itself *)
C6_Witness ==
  /\ Asked("find_face_transform")
  /\ conn.tree_to_tree[query.itree * 6 + query.iface] = query.itree
  /\ conn.tree_to_face[query.itree * 6 + query.iface] % 6 # query.iface
  /\ query.out.ret = query.itree

OnPeriodic(itree, iface) ==
  /\ Asked("find_face_transform")
  /\ conn = p8est_connectivity_new_periodic
  /\ query.itree = itree
  /\ query.iface = iface

(* C7: on the periodic one-tree connectivity find_face_transform for tree
   0, face 0 returns neighbor tree 0, and ftransform[8], which is 0 for a
   minus face meeting a plus face, 1 for plus meeting minus and 2 for two
   faces of one side, is 0: face 0 (-x) meets face 1 (+x). *)
C7_PeriodicFaceCode ==
  OnPeriodic(0, 0) =>
    /\ query.out.ret = 0
    /\ query.out.nface = 1
    /\ query.out.ftransform8 = 0

(* C7 as stated: neighbor tree 0 and ftransform[8] = 2. *)
C7_PeriodicFaceCodeTwo ==
  OnPeriodic(0, 0) => query.out.ret = 0 /\ query.out.ftransform8 = 2

C7_Witness == OnPeriodic(0, 0) /\ query.out.ret = 0

(* C8: find_edge_transform returns no transform when tree_to_edge is -1;
   otherwise each transform is that of an entry (ntree, code) of the edge's
   bucket other than the origin entry (tree, edge), with nedge = code mod 12
   in 0..11 and nflip = 1 iff code >= 12, and none is the origin entry. *)
C8_EdgeTransforms ==
  Asked("find_edge_transform") =>
    LET k == conn.tree_to_edge[query.itree * 12 + query.iedge]
    IN  /\ k = -1 => query.ei = <<>>
        /\ \A j \in DOMAIN query.ei :
             /\ k >= 0
             /\ \E i \in conn.ett_offset[k]..(conn.ett_offset[k + 1] - 1) :
                  /\ <<conn.edge_to_tree[i], conn.edge_to_edge[i]>>
                       # <<query.itree, query.iedge>>
                  /\ query.ei[j].ntree = conn.edge_to_tree[i]
                  /\ query.ei[j].nedge = conn.edge_to_edge[i] % 12
                  /\ query.ei[j].nflip = 1 <=> conn.edge_to_edge[i] >= 12
             /\ query.ei[j].nedge \in 0..11
             /\ query.ei[j].nflip \in {0, 1}
             /\ ~(/\ query.ei[j].ntree = query.itree
                  /\ query.ei[j].nedge = query.iedge
                  /\ query.ei[j].nflip = 0)

(* the three partners of an edge of the periodic cube *)
C8_Witness ==
  /\ Asked("find_edge_transform")
  /\ conn.tree_to_edge[query.itree * 12 + query.iedge] >= 0
  /\ Len(query.ei) = 3

(* C9: edge bucket closure.  In every valid connectivity, for every tree t
   and edge e with tree_to_edge[t][e] = k >= 0, positions ett_offset[k] ..
   ett_offset[k+1]-1 of edge_to_tree and edge_to_edge hold the pair (t, e
   with identity orientation) exactly once; ett_offset does not decrease
   and ett_offset[num_edges] is the size of the edge_to_* arrays. *)
C9_EdgeBucketClosure ==
  Live =>
    /\ \A t \in Trees(conn), e \in Edges :
         LET k == conn.tree_to_edge[t * 12 + e]
         IN  k >= 0 =>
               Cardinality(
                 {i \in conn.ett_offset[k]..(conn.ett_offset[k + 1] - 1) :
                    conn.edge_to_tree[i] = t /\ conn.edge_to_edge[i] = e}) = 1
    /\ \A k \in 0..(conn.num_edges - 1) :
         conn.ett_offset[k] <= conn.ett_offset[k + 1]
    /\ conn.ett_offset[conn.num_edges] = Cardinality(DOMAIN conn.edge_to_tree)
    /\ conn.ett_offset[conn.num_edges] = Cardinality(DOMAIN conn.edge_to_edge)

(* a copy of the periodic cube with two entries of a bucket exchanged *)
C9_Witness ==
  /\ Live
  /\ conn.num_edges = 3
  /\ conn.tree_to_edge[1] = 0
  /\ conn.edge_to_edge[0] = 1
  /\ conn.edge_to_edge[1] = 0

------------------------------------------------------------------------------
(* C11: for the identity geometry, every tree index and every abc, X returns
   xyz = abc, J returns the identity matrix and detJ = 1, D returns 1, and
   Jit is the same operation as J: it returns the identity matrix and 1 and
   is not the default p8est_geometry_Jit. *)
C11_IdentityGeometry ==
  geom.type = "identity" =>
    /\ geom.Jit = geom.J
    /\ geom.Jit # "Jit"
    /\ call.op = "X" => call.out = [status |-> "ok", xyz |-> call.abc]
    /\ call.op = "D" => call.out = [status |-> "ok", ret |-> One]
    /\ call.op = "J" =>
         call.out = [status |-> "ok", J |-> Identity3, ret |-> One]
    /\ call.op = "Jit" =>
         call.out = [status |-> "ok", Jit |-> Identity3, ret |-> One]

(* Jit at a tree index and a point outside every other geometry's range *)
C11_Witness ==
  /\ Finished("Jit")
  /\ geom.type = "identity"
  /\ call.which_tree = -1
  /\ call.abc = Vec(Two, <<-1, 1>>, <<3, 1>>)
  /\ call.out.Jit = Identity3

(* C12: on the sphere's center cube (tree 12) X returns abc scaled
   componentwise by Clength = R0 / sqrt(3), J returns the diagonal matrix
   of Clength, and J and D both return CdetJ = Clength^3 whatever abc is. *)
C12_CenterCube ==
  (/\ geom.type = "sphere"
   /\ call.op \in {"X", "D", "J"}
   /\ call.which_tree = 12
   /\ InDomain(geom, 12, call.abc)) =>
    LET Clength == Div(geom.R0, sqrt(<<3, 1>>))
        CdetJ == Mul(Mul(Clength, Clength), Clength)
    IN  /\ call.op = "X" =>
             call.out = [status |-> "ok",
                         xyz |-> [i \in 0..2 |-> Mul(call.abc[i], Clength)]]
        /\ call.op = "D" => call.out = [status |-> "ok", ret |-> CdetJ]
        /\ call.op = "J" =>
             call.out = [status |-> "ok",
                         J |-> [i \in 0..2 |-> [j \in 0..2 |->
                                  IF i = j THEN Clength ELSE Zero]],
                         ret |-> CdetJ]

(* D at the corner (1, 1, 1) of the center cube of a sphere with R0 = 1/2 *)
C12_Witness ==
  /\ Finished("D")
  /\ geom.type = "sphere"
  /\ geom.R0 = Half
  /\ call.which_tree = 12
  /\ call.abc = Vec(One, One, One)
  /\ call.out.ret = pow(Div(Half, sqrt(<<3, 1>>)), <<3, 1>>)

------------------------------------------------------------------------------
OnRotwrap == Live /\ conn \in p8est_connectivity_new_rotwrap

(* C13, as the header states it: the rotwrap connectivity has one tree whose
   -x and +x faces (0 and 1) are identified with each other, whose -z and +z
   faces (bottom and top, local faces 4 and 5) are identified with each
   other through a rotation, with one rotated orientation code in both
   entries, and whose -y and +y faces (front and back, local faces 2 and 3)
   are boundaries (self-connected). *)
C13_RotwrapFaces ==
  OnRotwrap =>
    /\ conn.num_trees = 1
    /\ \A f \in Faces : conn.tree_to_tree[f] = 0
    /\ conn.tree_to_face[0] = 1 /\ conn.tree_to_face[1] = 0
    /\ conn.tree_to_face[2] = 2 /\ conn.tree_to_face[3] = 3
    /\ conn.tree_to_face[4] % P8EST_FACES = 5
    /\ conn.tree_to_face[5] % P8EST_FACES = 4
    /\ conn.tree_to_face[4] \div P8EST_FACES \in RotatedCodes
    /\ conn.tree_to_face[5] \div P8EST_FACES = conn.tree_to_face[4] \div P8EST_FACES

(* C13 as claimed: -y and +y (faces 2 and 3) identified with orientation
   code 3, -z and +z (faces 4 and 5) boundaries *)
C13_RotwrapFrontBackRotated ==
  OnRotwrap =>
    /\ conn.num_trees = 1
    /\ conn.tree_to_face[0] = 1 /\ conn.tree_to_face[1] = 0
    /\ conn.tree_to_face[2] = 3 + 3 * P8EST_FACES
    /\ conn.tree_to_face[3] = 2 + 3 * P8EST_FACES
    /\ conn.tree_to_face[4] = 4 /\ conn.tree_to_face[5] = 5

C13_Witness ==
  /\ OnRotwrap
  /\ p8est_connectivity_is_valid(conn)
  /\ query # NoQuery /\ query.op = "find_face_transform" /\ query.iface = 4
  /\ query.out.ret = 0 /\ query.out.nface = 5

------------------------------------------------------------------------------
(* C14, as the header states it: set_attr with enable = false is idempotent,
   from any state of the attribute array (absent or present) it may be
   called, twice in a row too, and leaves the array absent; set_attr with
   enable = true requires the array to be absent and leaves it present, so
   that calling it a second time in a row breaks its requirement "it must
   be NULL". *)
C14_SetAttr ==
  Asked("set_attr") =>
    /\ ~query.enable_tree_attr =>
         query.ret = "void" /\ conn.tree_to_attr = "NULL"
    /\ (query.enable_tree_attr /\ query.before = "NULL") =>
         query.ret = "void" /\ conn.tree_to_attr = "allocated"
    /\ (query.enable_tree_attr /\ query.before = "allocated") =>
         query.ret = "must_be_NULL"

(* C14 as claimed: with either flag and from either state the call is
   permitted, and the array is present after true, absent after false *)
C14_SetAttrIdempotent ==
  Asked("set_attr") =>
    /\ query.ret = "void"
    /\ conn.tree_to_attr = IF query.enable_tree_attr THEN "allocated" ELSE "NULL"

C14_Witness ==
  /\ Asked("set_attr")
  /\ query.enable_tree_attr
  /\ query.before = "allocated"
  /\ conn.tree_to_attr = "allocated"
  /\ query.ret = "must_be_NULL"

------------------------------------------------------------------------------
(* a step that constructs a connectivity, or fails to *)
Constructed ==
  /\ conn = NoConn /\ query = NoQuery
  /\ conn' # NoConn \/ (query' # NoQuery /\ query'.op = "new_copy")

(* C15: p8est_connectivity_new_copy never hands back an invalid
   connectivity.  A construction either fails, reporting
   InvalidConnectivity with no connectivity left behind, or succeeds with a
   connectivity that satisfies the validity invariants (index ranges, face
   reciprocity, edge inclusion) and has no attribute array. *)
C15_NewCopyChecked ==
  [][Constructed =>
       IF conn' = NoConn
         THEN query' = [op |-> "new_copy", ret |-> "InvalidConnectivity"]
         ELSE /\ query' = NoQuery
              /\ indices_valid(conn') /\ faces_reciprocal(conn')
              /\ edges_included(conn')
              /\ conn'.tree_to_attr = "NULL"]_vars

C15_Witness ==
  /\ Asked("new_copy")
  /\ query.ret = "InvalidConnectivity"
  /\ conn = NoConn

------------------------------------------------------------------------------
(* C16: the connect-type enumeration has the values FACE = 31, EDGE = 32,
   CORNER = 33, with DEFAULT equal to EDGE and FULL equal to CORNER, and the
   int conversion maps FACE to 1, EDGE to 2 and CORNER to 3, hence DEFAULT
   to 2 and FULL to 3, always a value in 1..3. *)
C16_ConnectType ==
  Asked("connect_type_int") =>
    /\ query.ret \in 1..3
    /\ query.name = "FACE" => query.btype = 31 /\ query.ret = 1
    /\ query.name = "EDGE" => query.btype = 32 /\ query.ret = 2
    /\ query.name = "CORNER" => query.btype = 33 /\ query.ret = 3
    /\ query.name = "DEFAULT" => query.btype = 32 /\ query.ret = 2
    /\ query.name = "FULL" => query.btype = 33 /\ query.ret = 3

C16_Witness ==
  /\ Asked("connect_type_int")
  /\ query.name = "FULL"
  /\ query.btype = P8EST_CONNECT_CORNER
  /\ query.ret = 3

------------------------------------------------------------------------------
(* the derivatives of q * x, q * y and q with respect to abc, where
   x = tan(a pi/4), y = tan(b pi/4), t = 1 / (x^2 + y^2 + 1), q = R sqrt(t),
   R = R1^2/R2 (R2/R1)^c, derx = dx/da, dery = dy/db, Rlog = log(R2/R1) *)
Derivatives(q, x, y, t, derx, dery, Rlog) ==
  [qx |-> Vec(Mul(Mul(q, Sub(One, Mul(Mul(x, x), t))), derx),
              Mul(Mul(Mul(Mul(Neg(q), x), y), t), dery),
              Mul(Mul(q, x), Rlog)),
   qy |-> Vec(Mul(Mul(Mul(Mul(Neg(q), x), y), t), derx),
              Mul(Mul(q, Sub(One, Mul(Mul(y, y), t))), dery),
              Mul(Mul(q, y), Rlog)),
   q  |-> Vec(Mul(Mul(Mul(Neg(q), x), t), derx),
              Mul(Mul(Mul(Neg(q), y), t), dery),
              Mul(q, Rlog))]

NegVec(v) == [i \in 0..2 |-> Neg(v[i])]

(* The row that a placement xyz of (q x, q y, q), evaluated at q = 1, x = 2,
   y = 3, asks for in row i: the value 2, 3 or 1 tells the component, its
   sign the sign. *)
PlacedRow(xyz, i, d) ==
  LET v == xyz[i]
      row == CASE Abs(v[1]) = 2 -> d.qx
               [] Abs(v[1]) = 3 -> d.qy
               [] Abs(v[1]) = 1 -> d.q
  IN  IF v[1] < 0 THEN NegVec(row) ELSE row

Placed(xyz, d) == [i \in 0..2 |-> PlacedRow(xyz, i, d)]

ShellPlaced(which_tree, abc, g) ==
  LET cx == cos(Mul(abc[0], M_PI_4))
      derx == Div(M_PI_4, Mul(cx, cx))
      x == tan(Mul(abc[0], M_PI_4))
      cy == cos(Mul(abc[1], M_PI_4))
      dery == Div(M_PI_4, Mul(cy, cy))
      y == tan(Mul(abc[1], M_PI_4))
      R == Mul(g.R1sqrbyR2, pow(g.R2byR1, abc[2]))
      t == Div(One, Add(Add(Mul(x, x), Mul(y, y)), One))
      q == Mul(R, sqrt(t))
  IN  Placed(shell_X_patch(which_tree \div 4, One, Two, <<3, 1>>),
             Derivatives(q, x, y, t, derx, dery, g.Rlog))

(* C17: for each of the six shell patches (which_tree / 4 = 0..5), row i of
   the matrix filled by shell J is the derivative row of the component of
   (q x, q y, q) that shell X places in xyz[i], with the same sign. *)
C17_ShellJRows ==
  (/\ geom.type = "shell" /\ call.op = "J"
   /\ call.which_tree \div 4 \in 0..5
   /\ call.out.status = "ok") =>
    call.out.J = ShellPlaced(call.which_tree, call.abc, geom)

C17_Witness ==
  /\ Finished("J") /\ geom.type = "shell"
  /\ call.which_tree = 5
  /\ call.abc = Vec(One, <<-1, 1>>, <<3, 2>>)
  /\ call.out.status = "ok"
  /\ call.out.J = ShellPlaced(5, call.abc, geom)

------------------------------------------------------------------------------
(* the quantities sphere_X and sphere_J compute on a shell tree 0..11 *)
SphereLocals(g, which_tree, abc) ==
  LET cx == cos(Mul(abc[0], M_PI_4))
      cy == cos(Mul(abc[1], M_PI_4))
      outer == which_tree < 6
      p == Sub(Two, abc[2])
      tanx == tan(Mul(abc[0], M_PI_4))
      tany == tan(Mul(abc[1], M_PI_4))
      tsqr == Add(Mul(tanx, tanx), Mul(tany, tany))
      x == IF outer THEN tanx
           ELSE Add(Mul(p, abc[0]), Mul(Sub(One, p), tanx))
      y == IF outer THEN tany
           ELSE Add(Mul(p, abc[1]), Mul(Sub(One, p), tany))
      R == IF outer THEN Mul(g.R1sqrbyR2, pow(g.R2byR1, abc[2]))
           ELSE Mul(g.R0sqrbyR1, pow(g.R1byR0, abc[2]))
      t == IF outer THEN Div(One, Add(Add(Mul(x, x), Mul(y, y)), One))
           ELSE Div(One, Add(Add(One, Mul(Sub(One, p), tsqr)), Mul(Two, p)))
  IN  [p |-> p, tanx |-> tanx, tany |-> tany, x |-> x, y |-> y, t |-> t,
       q |-> Mul(R, sqrt(t)),
       derx |-> IF outer THEN Div(M_PI_4, Mul(cx, cx))
                ELSE Div(Mul(Sub(One, p), M_PI_4), Mul(cx, cx)),
       dery |-> IF outer THEN Div(M_PI_4, Mul(cy, cy))
                ELSE Div(Mul(Sub(One, p), M_PI_4), Mul(cy, cy)),
       Rlog |-> IF outer THEN g.R1log
                ELSE Add(g.R0log, Mul(t, Sub(One, Mul(Half, tsqr))))]

(* the derivative rows of the inner shell before they are placed *)
InnerDerivatives(abc, l) ==
  [qx |-> Vec(Mul(l.q, Add(l.p, Mul(Sub(One, Mul(Mul(l.x, l.tanx), l.t)), l.derx))),
              Mul(Mul(Mul(Mul(Neg(l.q), l.x), l.tany), l.t), l.dery),
              Mul(l.q, Add(Sub(Mul(l.x, l.Rlog), abc[0]), l.tanx))),
   qy |-> Vec(Mul(Mul(Mul(Mul(Neg(l.q), l.y), l.tanx), l.t), l.derx),
              Mul(l.q, Add(l.p, Mul(Sub(One, Mul(Mul(l.y, l.tany), l.t)), l.dery))),
              Mul(l.q, Add(Sub(Mul(l.y, l.Rlog), abc[1]), l.tany))),
   q  |-> Vec(Mul(Mul(Mul(Neg(l.q), l.tanx), l.t), l.derx),
              Mul(Mul(Mul(Neg(l.q), l.tany), l.t), l.dery),
              Mul(l.q, l.Rlog))]

SpherePlacedOf(which_tree, abc, l) ==
  Placed(sphere_X_patch(which_tree % 6, One, Two, <<3, 1>>),
         IF which_tree < 6
           THEN Derivatives(l.q, l.x, l.y, l.t, l.derx, l.dery, l.Rlog)
           ELSE InnerDerivatives(abc, l))

SpherePlaced(g, which_tree, abc) ==
  SpherePlacedOf(which_tree, abc, SphereLocals(g, which_tree, abc))

(* C18: for every sphere shell tree 0..11 the patch index of sphere J
   (which_tree for trees 0..5, which_tree - 6 for trees 6..11) is the index
   which_tree mod 6 of sphere X, and mapJ and mapM place the derivative rows
   of q x, q y and q in the row, and with the sign, in which the switch of
   sphere X places q x, q y and q. *)
C18_SphereJRows ==
  (/\ geom.type = "sphere" /\ call.op = "J"
   /\ call.which_tree \in 0..11
   /\ call.out.status = "ok") =>
    /\ (IF call.which_tree < 6 THEN call.which_tree ELSE call.which_tree - 6)
         = call.which_tree % 6
    /\ call.out.J = SpherePlaced(geom, call.which_tree, call.abc)

C18_Witness ==
  /\ Finished("J") /\ geom.type = "sphere"
  /\ call.which_tree = 6
  /\ call.abc = Vec(One, <<-1, 1>>, <<3, 2>>)
  /\ call.out.J = SpherePlaced(geom, 6, call.abc)
  /\ call.out.J[1] = NegVec(InnerDerivatives(call.abc, SphereLocals(geom, 6, call.abc)).q)

------------------------------------------------------------------------------
(* the quantities shell_D computes *)
ShellLocals(g, abc) ==
  LET cx == cos(Mul(abc[0], M_PI_4))
      x == tan(Mul(abc[0], M_PI_4))
      cy == cos(Mul(abc[1], M_PI_4))
      y == tan(Mul(abc[1], M_PI_4))
      R == Mul(g.R1sqrbyR2, pow(g.R2byR1, abc[2]))
      t == Div(One, Add(Add(Mul(x, x), Mul(y, y)), One))
  IN  [x |-> x, y |-> y, t |-> t, q |-> Mul(R, sqrt(t)),
       derx |-> Div(M_PI_4, Mul(cx, cx)), dery |-> Div(M_PI_4, Mul(cy, cy)),
       Rlog |-> g.Rlog]

Scaling(l) == Mul(Mul(Mul(Mul(Mul(l.q, l.q), l.q), l.derx), l.dery), l.Rlog)

ExactD(ret, M, l) == det3(M) = One /\ ret = Scaling(l)

(* In exact arithmetic the determinant is 1 and D is the scaling *)
ExactDeterminant ==
  /\ (call.op = "D" /\ geom.type = "shell" /\ call.out.status = "ok") =>
       LET l == ShellLocals(geom, call.abc)
       IN  ExactD(call.out.ret, shell_D_matrix(l.x, l.y, l.t), l)
  /\ (/\ call.op = "D" /\ geom.type = "sphere" /\ call.which_tree \in 0..5
      /\ call.out.status = "ok") =>
       LET l == SphereLocals(geom, call.which_tree, call.abc)
       IN  ExactD(call.out.ret, sphere_D_outer(l.x, l.y, l.t), l)
  /\ call.op = "detJ_double" =>
       /\ det3(shell_D_matrix(call.x, call.y, call.t)) = One
       /\ det3(sphere_D_outer(call.x, call.y, call.t)) = One

(* C19, with the arithmetic named: the normalized matrix that shell D (and
   the outer shell of sphere D) builds from x, y and t has determinant 1 in
   exact arithmetic for all x, y and t, and D then is
   q^3 derx dery log(R2/R1); in double arithmetic the determinant that D
   computes and multiplies in is 1 only up to rounding, within two units of
   the last place of 1. *)
C19_DeterminantOne ==
  /\ ExactDeterminant
  /\ call.op = "detJ_double" =>
       Between(Sub(call.out, One), Rat(-2, 2 ^ MantissaBits), Rat(2, 2 ^ MantissaBits))

(* C19 as claimed: the determinant that D computes is exactly 1 *)
C19_DeterminantExactlyOne ==
  /\ ExactDeterminant
  /\ call.op = "detJ_double" => call.out = One

C19_Witness ==
  /\ call.op = "detJ_double"
  /\ call.t # Div(One, Add(Add(Mul(call.x, call.x), Mul(call.y, call.y)), One))
  /\ det3(shell_D_matrix(call.x, call.y, call.t)) = One
  /\ call.out # One

------------------------------------------------------------------------------
InnerShellX ==
  /\ geom.type = "sphere" /\ call.op = "X"
  /\ call.which_tree \in 6..11
  /\ call.out.status = "ok"

OuterQ(g, x, y) ==
  Div(Mul(g.R1sqrbyR2, pow(g.R2byR1, One)),
      sqrt(Add(Add(Mul(x, x), Mul(y, y)), One)))

InnerAtTwo(g, which_tree, a, b, xyz, x, y) ==
  /\ xyz = sphere_X_patch(which_tree % 6,
                          Div(g.R1, sqrt(Add(Add(Mul(x, x), Mul(y, y)), One))), x, y)
  /\ Div(g.R1, sqrt(Add(Add(Mul(x, x), Mul(y, y)), One))) = OuterQ(g, x, y)
  /\ xyz = sphere_X(g, which_tree - 6, Vec(a, b, One)).xyz

(* C20: on the sphere's inner-shell trees 6..11 the blend parameter is
   p = 2 - abc[2].  At abc[2] = 1 (p = 1) X uses x = abc[0], y = abc[1] and
   q = R0 / sqrt(3), the center cube's Clength; at abc[2] = 2 (p = 0) X uses
   x = tan(abc[0] pi/4), y = tan(abc[1] pi/4) and q = R1 / sqrt(x^2 + y^2 + 1),
   the value of the outer-shell formula at abc[2] = 1. *)
C20_InnerShellBlend ==
  InnerShellX =>
    /\ call.abc[2] = One =>
         /\ call.out.xyz = sphere_X_patch(call.which_tree % 6,
                                          Div(geom.R0, sqrt(<<3, 1>>)),
                                          call.abc[0], call.abc[1])
         /\ Div(geom.R0, sqrt(<<3, 1>>)) = geom.Clength
    /\ call.abc[2] = Two =>
         InnerAtTwo(geom, call.which_tree, call.abc[0], call.abc[1], call.out.xyz,
                    tan(Mul(call.abc[0], M_PI_4)), tan(Mul(call.abc[1], M_PI_4)))

C20_Witness ==
  /\ InnerShellX
  /\ call.which_tree = 7
  /\ call.abc = Vec(Half, One, One)
  /\ tan(Mul(Half, M_PI_4)) # Half
  /\ call.out.xyz = Vec(Mul(geom.Clength, Half), geom.Clength, geom.Clength)

------------------------------------------------------------------------------
(* The placement of a patch: with q = 1, x = y = 0, t = 1 and unit
   derivatives, the derivative rows of q x, q y and q are the unit vectors,
   and the matrix J fills is the placement itself. *)
ShellPlacement(patch) ==
  shell_J_patch(patch, One, Zero, Zero, One, One, One, One)

SpherePlacement(pid) ==
  sphere_J_outer(pid, One, Zero, Zero, One, One, One, One)

Units == {One, Neg(One)}

IsSignedPermutation(P) ==
  /\ \A i \in 0..2, k \in 0..2 : P[i][k] \in Units \cup {Zero}
  /\ \A i \in 0..2 : Cardinality({k \in 0..2 : P[i][k] # Zero}) = 1
  /\ \A k \in 0..2 : Cardinality({i \in 0..2 : P[i][k] # Zero}) = 1

(* P applied to (q x, q y, q) *)
PlacedVec(P, qx, qy, q) ==
  [i \in 0..2 |-> Add(Add(Mul(P[i][0], qx), Mul(P[i][1], qy)), Mul(P[i][2], q))]

OrientationPreserving(P) == IsSignedPermutation(P) /\ det3(P) = One

ShellOrientationPreserving(P, patch) ==
  /\ OrientationPreserving(P)
  /\ shell_X_patch(patch, One, Two, <<3, 1>>) = PlacedVec(P, Two, <<3, 1>>, One)

SphereOrientationPreserving(P, pid) ==
  /\ OrientationPreserving(P)
  /\ sphere_X_patch(pid, One, Two, <<3, 1>>) = PlacedVec(P, Two, <<3, 1>>, One)

(* C21: every patch placement of the built-in geometries is orientation
   preserving.  Each of the six placements of the shell X/J switch and each
   of the six rows of mapJ/mapM is a signed permutation matrix of
   determinant +1, the same one in X and in J (stated on every call of J
   for the patch of its tree, and the calls reach all patches); the
   determinant of the
   matrix J fills then is that of the unplaced derivative rows, and D,
   which never looks at the patch, returns the value that J returns. *)
C21_OrientationPreserving ==
  /\ (call.op = "J" /\ geom.type = "shell" /\ call.which_tree \in 0..23) =>
       ShellOrientationPreserving(ShellPlacement(call.which_tree \div 4),
                                  call.which_tree \div 4)
  /\ (call.op = "J" /\ geom.type = "sphere" /\ call.which_tree \in 0..11) =>
       SphereOrientationPreserving(SpherePlacement(call.which_tree % 6),
                                   call.which_tree % 6)
  /\ (Finished("J") /\ geom.type = "shell") =>
       LET l == ShellLocals(geom, call.abc)
           d == Derivatives(l.q, l.x, l.y, l.t, l.derx, l.dery, l.Rlog)
       IN  /\ det3(call.out.J) = det3(Mat(d.qx, d.qy, d.q))
           /\ call.out.ret = det3(call.out.J)
           /\ shell_D(geom, call.which_tree, call.abc)
                = [status |-> "ok", ret |-> call.out.ret]
  /\ (Finished("J") /\ geom.type = "sphere" /\ call.which_tree \in 0..5) =>
       LET l == SphereLocals(geom, call.which_tree, call.abc)
           d == Derivatives(l.q, l.x, l.y, l.t, l.derx, l.dery, l.Rlog)
       IN  /\ det3(call.out.J) = det3(Mat(d.qx, d.qy, d.q))
           /\ call.out.ret = det3(call.out.J)
           /\ sphere_D(geom, call.which_tree, call.abc)
                = [status |-> "ok", ret |-> call.out.ret]
  /\ (Finished("J") /\ geom.type = "sphere" /\ call.which_tree \in 6..11) =>
       LET d == InnerDerivatives(call.abc,
                                 SphereLocals(geom, call.which_tree, call.abc))
       IN  /\ det3(call.out.J) = det3(Mat(d.qx, d.qy, d.q))
           /\ sphere_D(geom, call.which_tree, call.abc)
                = [status |-> "ok", ret |-> call.out.ret]

C21_Witness ==
  /\ Finished("J") /\ geom.type = "sphere"
  /\ call.which_tree = 5
  /\ call.abc = Vec(One, <<-1, 1>>, <<3, 2>>)
  /\ SpherePlacement(5) = Mat(Vec(Zero, Zero, Neg(One)), Vec(Neg(One), Zero, Zero),
                              Vec(Zero, One, Zero))
  /\ det3(SpherePlacement(5)) = One
  /\ sphere_D(geom, 5, call.abc).ret = call.out.ret

------------------------------------------------------------------------------
NotReached == call.out.status = "abort" /\ call.out.why = "not_reached"

(* C22: whenever the asserted tree range holds (0 <= which_tree < 24 for the
   shell, 0 <= which_tree < 13 for the sphere), the default branch
   SC_CHECK_NOT_REACHED of the patch switch is not reached in shell X,
   shell J or sphere X: which_tree / 4 and which_tree mod 6 are in 0..5
   there, and sphere X returns for tree 12 before its switch. *)
C22_DefaultNotReached ==
  /\ (geom.type = "shell" /\ call.op \in {"X", "J"} /\ call.which_tree \in 0..23) =>
       /\ call.which_tree \div 4 \in 0..5
       /\ ~NotReached
  /\ (geom.type = "sphere" /\ call.op = "X" /\ call.which_tree \in 0..12) =>
       /\ call.which_tree < 12 => call.which_tree % 6 \in 0..5
       /\ ~NotReached
       /\ (call.which_tree = 12 /\ call.out.status = "ok") =>
            call.out.xyz = [i \in 0..2 |-> Mul(call.abc[i], geom.Clength)]

C22_Witness ==
  /\ Finished("X") /\ geom.type = "shell"
  /\ call.which_tree = 23
  /\ call.abc = Vec(Zero, Zero, Two)
  /\ call.out.xyz = Vec(Zero, Neg(geom.R2), Zero)

------------------------------------------------------------------------------
(* the input ranges of a geometry, each bound of abc with the tolerance
   SC_1000_EPS *)
Ranges(g, which_tree, abc) ==
  /\ InRange(abc[0], Neg(One), One)
  /\ InRange(abc[1], Neg(One), One)
  /\ CASE g.type = "shell" ->
            0 <= which_tree /\ which_tree < 24 /\ InRange(abc[2], One, Two)
       [] g.type = "sphere" ->
            /\ 0 <= which_tree /\ which_tree < 13
            /\ which_tree < 12 => InRange(abc[2], One, Two)
            /\ which_tree = 12 => InRange(abc[2], Neg(One), One)

RangeFailure(r) == r = Aborted("range")

(* C23: X, D and J of one geometry enforce the same input ranges by
   assertion.  The shell requires 0 <= which_tree < 24, abc[0] and abc[1]
   in [-1, 1] and abc[2] in [1, 2]; the sphere requires 0 <= which_tree < 13,
   abc[0] and abc[1] in [-1, 1], abc[2] in [1, 2] for trees 0..11 and in
   [-1, 1] for tree 12, each bound with a small tolerance.  An input
   outside these ranges is an assertion failure in each of the three and
   yields no result; an input inside them fails no range assertion. *)
C23_SameRanges ==
  (geom.type \in {"shell", "sphere"} /\ call.op \in {"X", "D", "J"}) =>
    /\ RangeFailure(call.out) <=> ~Ranges(geom, call.which_tree, call.abc)
    /\ ~Ranges(geom, call.which_tree, call.abc) => call.out.status # "ok"
    /\ call.abc \in AbcInputs =>
         /\ RangeFailure(geom_X(geom, call.which_tree, call.abc))
              <=> RangeFailure(call.out)
         /\ RangeFailure(geom_D(geom, call.which_tree, call.abc))
              <=> RangeFailure(call.out)
         /\ RangeFailure(geom_J(geom, call.which_tree, call.abc))
              <=> RangeFailure(call.out)

C23_Witness ==
  /\ call.op = "D" /\ geom.type = "sphere"
  /\ call.which_tree = 12
  /\ call.abc = Vec(One, Zero, Two)
  /\ call.out = Aborted("range")
  /\ geom_D(geom, 11, call.abc).status = "ok"

====
